---- MODULE Spec2Model ----
(***************************************************************************)
(* Model of the spektacular agent runner: the event accessors, the        *)
(* question detector, the prompt builder and the plan session loop that   *)
(* drives one conversation with the agent backend over several turns;     *)
(* the claude backend adapter (Claude.Run and run) with its two channels;  *)
(* and the runner registry.  Each part has its own specification and      *)
(* leaves the variables of the other parts alone.                          *)
(*                                                                         *)
(* Text is a sequence of tokens.  The tokens "OPEN" and "CLOSE" stand for  *)
(* the literal delimiters "<!--QUESTION:" and "-->"; a token that is a key *)
(* of JsonDocs stands for a span of text that is one valid JSON object;    *)
(* every other token is ordinary text.                                     *)
(***************************************************************************)
EXTENDS Integers, Sequences, FiniteSets, TLC

VARIABLES
  pc,               \* position of run_plan: Start, Sending, AwaitingAnswer, Done, Failed
  session_id,       \* run_plan's session_id ("" while none is recorded)
  final_result,     \* run_plan's final_result ("" while none is recorded)
  questions_found,  \* questions accumulated in the current turn
  current_prompt,   \* prompt of the current invocation
  output,           \* the result text handed to the caller on success
  raised,           \* the error handed to the caller on failure (<<>> = none)
  runs,             \* run_claude invocations so far: prompt and session id
  received,         \* events yielded by the current invocation, in order
  textLog,          \* texts echoed to the caller in the current turn
  asks,             \* calls of the answer callback in the current turn
  askArg,           \* questions passed to the answer callback in this turn
  streamErr,        \* error raised by the current invocation (<<>> = none)
  closed,           \* the current invocation's output ended without an error
  resultAfterQ,     \* final_result was set after a question in the same turn
  lastAnswer,       \* the string the answer callback returned last
  \* --- the backend adapter: one call of Claude.Run ---
  opts,             \* the RunOptions of the call (with the agent configuration)
  fail,             \* which launch step fails: none, getwd, pipe or start
  stdout,           \* the lines the backend process writes, in order
  exitStatus,       \* the exit status of the backend process
  bigTail,          \* the unread rest of the output exceeds the OS pipe buffer
  wpc,              \* position of the worker goroutine
  cmd,              \* the command line built by run
  scanned,          \* number of lines the scanner has returned
  pending,          \* the Event the worker is about to send (<<>> = none)
  events,           \* buffer of the events channel
  eventsCloses,     \* number of close(events) calls so far
  errc,             \* buffer of the error channel
  errcCloses,       \* number of close(errc) calls so far
  runErr,           \* the error returned by run (<<>> = nil)
  cpc,              \* position of the caller: events, errc, done
  got,              \* events the caller has received, in order
  gotErr,           \* non-nil errors the caller has received
  \* --- the runner registry ---
  registry,         \* the package-level map from name to constructor
  registered,       \* the Register calls made so far, in order
  lookup,           \* outcome of the last NewRunner call (<<>> = none yet)
  \* --- a second conversation running beside the first ---
  other,            \* the locals of the conversation that is not stepping
  active,           \* which conversation the loop variables belong to: 1 or 2
  \* --- one call of an Event accessor ---
  ev,               \* the Event the accessor is called on
  ret,              \* the accessor called and what it returned (<<>> = none)
  \* --- one call of detect_questions ---
  qtext,            \* the text searched for question markers
  qfound,           \* what the call did (<<>> = not called yet)
  \* --- one call of the prompt builder ---
  pin,              \* the builder called, the content and the header
  pout              \* the prompt it returned (<<>> = not called yet)

planVars == <<pc, session_id, final_result, questions_found, current_prompt,
              output, raised, runs, received, textLog, asks, askArg,
              streamErr, closed, resultAfterQ, lastAnswer>>

adapterVars == <<opts, fail, stdout, exitStatus, bigTail, wpc, cmd, scanned,
                 pending, events, eventsCloses, errc, errcCloses, runErr,
                 cpc, got, gotErr>>

registryVars == <<registry, registered, lookup>>

concVars == <<other, active>>

accessorVars == <<ev, ret>>

questionVars == <<qtext, qfound>>

promptVars == <<pin, pout>>

sideVars == <<concVars, accessorVars, questionVars, promptVars>>

vars == <<planVars, adapterVars, registryVars, sideVars>>

\* The session loop is not running.
PlanIdle ==
  /\ pc = "Idle"
  /\ session_id = ""
  /\ final_result = ""
  /\ questions_found = << >>
  /\ current_prompt = << >>
  /\ output = ""
  /\ raised = << >>
  /\ runs = << >>
  /\ received = << >>
  /\ textLog = << >>
  /\ asks = 0
  /\ askArg = << >>
  /\ streamErr = << >>
  /\ closed = FALSE
  /\ resultAfterQ = FALSE
  /\ lastAnswer = << >>

\* No call of Claude.Run is in progress.
AdapterIdle ==
  /\ opts = << >>
  /\ fail = "none"
  /\ stdout = << >>
  /\ exitStatus = 0
  /\ bigTail = FALSE
  /\ wpc = "idle"
  /\ cmd = << >>
  /\ scanned = 0
  /\ pending = << >>
  /\ events = << >>
  /\ eventsCloses = 0
  /\ errc = << >>
  /\ errcCloses = 0
  /\ runErr = << >>
  /\ cpc = "idle"
  /\ got = << >>
  /\ gotErr = << >>

\* The registry is not in use.
RegistryIdle ==
  /\ registry = << >>
  /\ registered = << >>
  /\ lookup = << >>

\* No call of the prompt builder is made.
PromptIdle ==
  /\ pin = << >>
  /\ pout = << >>

\* There is one conversation, no accessor call and no detection call.
SideIdle ==
  /\ PromptIdle
  /\ other = << >>
  /\ active = 1
  /\ ev = << >>
  /\ ret = << >>
  /\ qtext = << >>
  /\ qfound = << >>

(***************************************************************************)
(* Bounds of the model.                                                    *)
(***************************************************************************)
\* Largest number of events the backend emits in one turn.
MaxEvents == 2
\* Largest number of backend invocations in one conversation.
MaxTurns == 3

(***************************************************************************)
(* Event model.                                                            *)
(***************************************************************************)
Q1 == [question |-> "Which DB?", header |-> "Database", options |-> <<"SQL", "NoSQL">>]
Q2 == [question |-> "Which port?", header |-> "Port", options |-> <<>>]
Q3 == [question |-> "Which name?", header |-> "", options |-> <<>>]

\* JSON objects that may appear between the marker delimiters.  has_question
\* is FALSE for an array element that lacks the "question" key.
JsonDocs ==
  [ jq1     |-> [has_questions |-> TRUE,
                 questions |-> << [has_question |-> TRUE, q |-> Q1] >>],
    jq2q3   |-> [has_questions |-> TRUE,
                 questions |-> << [has_question |-> TRUE, q |-> Q2],
                                  [has_question |-> TRUE, q |-> Q3] >>],
    jq2     |-> [has_questions |-> TRUE,
                 questions |-> << [has_question |-> TRUE, q |-> Q2] >>],
    jq3     |-> [has_questions |-> TRUE,
                 questions |-> << [has_question |-> TRUE, q |-> Q3] >>],
    jq1nokey |-> [has_questions |-> TRUE,
                  questions |-> << [has_question |-> TRUE, q |-> Q1],
                                   [has_question |-> FALSE, q |-> Q2] >>],
    jnokey  |-> [has_questions |-> TRUE,
                 questions |-> << [has_question |-> FALSE, q |-> Q1] >>],
    jempty  |-> [has_questions |-> FALSE, questions |-> << >>] ]

\* Spans that are valid JSON but not an object: a number, an array, null.
NonObjects == {"jnum"}

\* json.loads of a span: it decodes when the span is exactly one JSON value.
JsonValid(span) ==
  Len(span) = 1 /\ span[1] \in DOMAIN JsonDocs \cup NonObjects

\* The questions appended for one decoded marker body, element by element.
\* A KeyError on an element abandons the rest of the marker; the questions
\* appended before it stay in the list.
RECURSIVE AppendQuestions(_, _)
AppendQuestions(elems, acc) ==
  IF elems = << >> THEN acc
  ELSE IF ~ Head(elems).has_question THEN acc
  ELSE AppendQuestions(Tail(elems), Append(acc, Head(elems).q))

\* Positions of a token in text at or after position from.
Positions(text, tok, from) == { i \in from..Len(text) : text[i] = tok }

Min(S) == CHOOSE m \in S : \A n \in S : m <= n

\* Variant: a span that does not decode ends the scan.
RECURSIVE ScanMarkersUntilInvalid(_, _, _)
ScanMarkersUntilInvalid(text, from, acc) ==
  LET opens == Positions(text, "OPEN", from) IN
  IF opens = {} THEN [raised |-> FALSE, questions |-> acc]
  ELSE LET o == Min(opens)
           closes == Positions(text, "CLOSE", o + 1) IN
       IF closes = {} THEN [raised |-> FALSE, questions |-> acc]
       ELSE LET c == Min(closes)
                span == SubSeq(text, o + 1, c - 1)
                doc == JsonDocs[span[1]] IN
            IF ~ JsonValid(span) THEN [raised |-> FALSE, questions |-> acc]
            ELSE IF span[1] \in NonObjects
                 THEN [raised |-> TRUE, questions |-> << >>]
            ELSE ScanMarkersUntilInvalid(text, c + 1,
                   IF ~ doc.has_questions THEN acc
                   ELSE AppendQuestions(doc.questions, acc))

\* QUESTION_PATTERN.finditer: leftmost opening delimiter, shortest body.
\* A span that does not decode raises JSONDecodeError, which is caught: the
\* scan goes on with the next marker.  A span that decodes to a value that
\* is not an object has no get: the AttributeError is not caught and leaves
\* detect_questions.
RECURSIVE ScanMarkers(_, _, _)
ScanMarkers(text, from, acc) ==
  LET opens == Positions(text, "OPEN", from) IN
  IF opens = {} THEN [raised |-> FALSE, questions |-> acc]
  ELSE LET o == Min(opens)
           closes == Positions(text, "CLOSE", o + 1) IN
       IF closes = {} THEN [raised |-> FALSE, questions |-> acc]
       ELSE LET c == Min(closes)
                span == SubSeq(text, o + 1, c - 1)
                doc == JsonDocs[span[1]] IN
            IF ~ JsonValid(span) THEN ScanMarkers(text, c + 1, acc)
            ELSE IF span[1] \in NonObjects
                 THEN [raised |-> TRUE, questions |-> << >>]
            ELSE ScanMarkers(text, c + 1,
                   IF ~ doc.has_questions THEN acc
                   ELSE AppendQuestions(doc.questions, acc))

\* The list detect_questions returns.
detect_questions(text) == ScanMarkers(text, 1, << >>).questions

TextBlock(t) == [type |-> "text", text |-> t, name |-> ""]
ToolBlock(n) == [type |-> "tool_use", text |-> << >>, name |-> n]

MkEvent(t, sid, err, res, content) ==
  [type |-> t, session_id |-> sid, is_error |-> err, result |-> res,
   content |-> content]

SessionID(e) == e.session_id

IsResult(e) == e.type = "result"

\* Variant: the flag is looked up under a key the payload never has.
IsErrorWrongKey(e) == FALSE

IsError(e) == IF ~ IsResult(e) THEN FALSE ELSE e.is_error

ResultText(e) == IF ~ IsResult(e) THEN "" ELSE e.result

RECURSIVE JoinTexts(_)
JoinTexts(texts) ==
  IF texts = << >> THEN << >>
  ELSE IF Len(texts) = 1 THEN texts[1]
  ELSE texts[1] \o <<"\n">> \o JoinTexts(Tail(texts))

RECURSIVE TextsOf(_)
TextsOf(content) ==
  IF content = << >> THEN << >>
  ELSE IF Head(content).type = "text"
       THEN <<Head(content).text>> \o TextsOf(Tail(content))
       ELSE TextsOf(Tail(content))

\* Variant: the text blocks are joined whatever the type of the event.
TextContentAnyType(e) == JoinTexts(TextsOf(e.content))

TextContent(e) ==
  IF e.type # "assistant" THEN << >> ELSE JoinTexts(TextsOf(e.content))

(***************************************************************************)
(* Prompt builder.                                                         *)
(***************************************************************************)
\* A string is the sequence of its words; separators are words of their
\* own.  The orientation sentence the builder writes first:
KnowledgeHint ==
  << "Additional project knowledge, architectural context, and past learnings can be found in",
     ".spektacular/knowledge/",
     ". Use your available tools to explore this directory as needed.",
     "\n\n" >>

\* The header BuildPrompt passes.
DefaultHeader == <<"Specification", "to", "Plan">>

\* Variant: the header argument is ignored.
BuildPromptWithDefaultHeader(content, header) ==
  KnowledgeHint \o <<"---", "\n\n", "# ">> \o DefaultHeader \o <<"\n\n">>
    \o content

BuildPromptWithHeader(content, header) ==
  KnowledgeHint \o <<"---", "\n\n", "# ">> \o header \o <<"\n\n">> \o content

BuildPrompt(specContent) == BuildPromptWithHeader(specContent, DefaultHeader)

(***************************************************************************)
(* Inputs of the session loop.                                             *)
(***************************************************************************)
Plain == <<"a">>
OneQ == <<"a", "OPEN", "jq1", "CLOSE", "b">>
TwoMarkers == << TextBlock(<<"OPEN", "jq2q3", "CLOSE">>), ToolBlock("Bash"),
                 TextBlock(<<"OPEN", "jq1", "CLOSE">>) >>

SystemEvents == { MkEvent("system", "s1", FALSE, "", << >>) }

\* Assistant events carry no session identifier, but for one that carries
\* an identifier other than the system event's.
AssistantEvents ==
  { MkEvent("assistant", "", FALSE, "", c) :
      c \in { <<ToolBlock("Bash")>>, <<TextBlock(OneQ)>>, TwoMarkers } }
  \cup { MkEvent("assistant", "s2", FALSE, "", <<TextBlock(Plain)>>) }

ResultEvents ==
  { MkEvent("result", "", FALSE, r, << >>) : r \in {"", "r1", "r2"} }
  \cup { MkEvent("result", "", TRUE, "e1", << >>) }

\* An event of an unrecognised type whose payload carries every field.
OtherEvents == { MkEvent("unknown", "", TRUE, "r1", <<TextBlock(OneQ)>>) }

Events == SystemEvents \cup AssistantEvents \cup ResultEvents \cup OtherEvents

\* Strings the answer callback may return.
Answers == { <<"a1">>, <<"a2">> }

\* Errors run_claude raises once the output is exhausted.
TransportErrors == { <<"Claude process exited with code ", "1", ": ", "boom">> }

SpecContents == { <<"my spec">> }

(***************************************************************************)
(* What a turn's events say, read from the payloads.                       *)
(***************************************************************************)
\* Text of an assistant event; empty for every other event.
AssistantText(e) ==
  IF e.type = "assistant" THEN JoinTexts(TextsOf(e.content)) ELSE << >>

\* Questions carried by event e.
QuestionsIn(e) == detect_questions(AssistantText(e))

OkResult(e) == e.type = "result" /\ ~ e.is_error

ErrResult(e) == e.type = "result" /\ e.is_error

\* Questions of all events of a turn, in order of arrival.
RECURSIVE TurnQuestions(_)
TurnQuestions(evs) ==
  IF evs = << >> THEN << >>
  ELSE QuestionsIn(Head(evs)) \o TurnQuestions(Tail(evs))

(***************************************************************************)
(* Session loop (run_plan).                                                *)
(*                                                                         *)
(* The loop is run_plan of .spektacular/debug/implement-prompt.md; the     *)
(* handling of one event follows the loop as quoted from plan.py in        *)
(* .spektacular/plans/2_rich_tui/research.md: the session identifier is    *)
(* recorded from any event that carries one, and a non-empty text is       *)
(* echoed to the caller before the questions in it are detected.  The      *)
(* error stream of an invocation is the error run_claude raises once its   *)
(* output is exhausted.                                                    *)
(***************************************************************************)
\* Variant: the message leaves the agent's text out.
AgentErrorNoText(text) == <<"Agent error: ">>

AgentError(text) == <<"Agent error: ", text>>

NoResultError == <<"Agent completed without producing a result">>

\* Variant: the question list is created once, before the loop.
InvokeKeepsQuestions(prompt) ==
  /\ questions_found' = questions_found
  /\ runs' = Append(runs, [prompt |-> prompt, session_id |-> session_id])
  /\ received' = << >>
  /\ textLog' = << >>
  /\ asks' = 0
  /\ askArg' = << >>
  /\ streamErr' = << >>
  /\ closed' = FALSE
  /\ pc' = "Sending"

\* Top of the while loop: reset the turn's questions and call run_claude.
Invoke(prompt) ==
  /\ questions_found' = << >>
  /\ runs' = Append(runs, [prompt |-> prompt, session_id |-> session_id])
  /\ received' = << >>
  /\ textLog' = << >>
  /\ asks' = 0
  /\ askArg' = << >>
  /\ streamErr' = << >>
  /\ closed' = FALSE
  /\ pc' = "Sending"

(***************************************************************************)
(* The runner registry as the session loop and its callers read it.        *)
(***************************************************************************)
\* The command names and the constructors of the model.
Names == {"claude", "stub", "zed"}
Constructors == {"claude.New", "newStub", "newOther"}

\* The names in the order sort.Strings gives them.
NamesInOrder == <<"claude", "stub", "zed">>

\* Calling a constructor.
Construct(c) == [madeBy |-> c]

\* Variant: the names are listed last first.
RECURSIVE ReverseSortedFrom(_, _)
ReverseSortedFrom(order, S) ==
  IF order = << >> THEN << >>
  ELSE ReverseSortedFrom(Tail(order), S)
       \o (IF Head(order) \in S THEN <<Head(order)>> ELSE << >>)

\* sort.Strings over the keys of the map.
RECURSIVE SortedFrom(_, _)
SortedFrom(order, S) ==
  IF order = << >> THEN << >>
  ELSE (IF Head(order) \in S THEN <<Head(order)>> ELSE << >>)
       \o SortedFrom(Tail(order), S)
registeredNames == SortedFrom(NamesInOrder, DOMAIN registry)

\* A []string formatted with %v.
RECURSIVE JoinSpace(_)
JoinSpace(elems) ==
  IF elems = << >> THEN ""
  ELSE IF Len(elems) = 1 THEN elems[1]
  ELSE elems[1] \o " " \o JoinSpace(Tail(elems))

\* The error of NewRunner for a command that is not registered.
UnsupportedRunner(name) ==
  "unsupported runner: \"" \o name \o "\" (available: ["
  \o JoinSpace(registeredNames) \o "])"

\* What NewRunner returns for the command name: a miss returns before any
\* constructor is called.
NewRunnerResult(name) ==
  IF name \in DOMAIN registry
  THEN [runner |-> Construct(registry[name]), err |-> ""]
  ELSE [runner |-> << >>, err |-> UnsupportedRunner(name)]

\* The registry once the init function of the claude package has run.
RegistryReady ==
  /\ registry = [claude |-> "claude.New"]
  /\ registered = <<[name |-> "claude", ctor |-> "claude.New"]>>
  /\ lookup = << >>

\* The locals of run_plan as the call begins.
PlanInit ==
  /\ pc = "New"
  /\ session_id = ""
  /\ final_result = ""
  /\ questions_found = << >>
  /\ current_prompt \in { BuildPrompt(c) : c \in SpecContents }
  /\ output = ""
  /\ raised = << >>
  /\ runs = << >>
  /\ received = << >>
  /\ textLog = << >>
  /\ asks = 0
  /\ askArg = << >>
  /\ streamErr = << >>
  /\ closed = FALSE
  /\ resultAfterQ = FALSE
  /\ lastAnswer = << >>

Init ==
  /\ PlanInit
  /\ AdapterIdle
  /\ RegistryReady
  /\ SideIdle

\* What a NewRunner call leaves for inspection: the command asked for, the
\* number of Register calls before it, and what it returned.
LookupOf(name) ==
  [name |-> name, at |-> Len(registered),
   runner |-> NewRunnerResult(name).runner, err |-> NewRunnerResult(name).err]

\* Variant: the error of NewRunner is dropped and the loop goes on.
CreateRunnerIgnoresError(name) ==
  /\ pc = "New"
  /\ lookup' = LookupOf(name)
  /\ pc' = "Start"
  /\ UNCHANGED <<session_id, final_result, questions_found, current_prompt,
                 output, raised, runs, received, textLog, asks, askArg,
                 streamErr, closed, resultAfterQ, lastAnswer>>
  /\ UNCHANGED <<adapterVars, registry, registered, sideVars>>

\* RunPlan asks the registry for the runner of the configured command and
\* returns the wrapped error when there is none.
CreateRunner(name) ==
  /\ pc = "New"
  /\ lookup' = LookupOf(name)
  /\ IF lookup'.err # ""
     THEN pc' = "Failed" /\ raised' = <<"creating runner: ", lookup'.err>>
     ELSE pc' = "Start" /\ raised' = raised
  /\ UNCHANGED <<session_id, final_result, questions_found, current_prompt,
                 output, runs, received, textLog, asks, askArg, streamErr,
                 closed, resultAfterQ, lastAnswer>>
  /\ UNCHANGED <<adapterVars, registry, registered, sideVars>>

\* Variant: the first invocation sends the content as it is, and resumes a
\* session.
StartResumingWithContent ==
  /\ pc = "Start"
  /\ questions_found' = << >>
  /\ runs' = Append(runs, [prompt |-> CHOOSE c \in SpecContents : TRUE,
                           session_id |-> "s0"])
  /\ received' = << >>
  /\ textLog' = << >>
  /\ asks' = 0
  /\ askArg' = << >>
  /\ streamErr' = << >>
  /\ closed' = FALSE
  /\ pc' = "Sending"
  /\ UNCHANGED <<session_id, final_result, current_prompt, output, raised,
                 resultAfterQ, lastAnswer>>
  /\ UNCHANGED <<adapterVars, registryVars, sideVars>>

\* First pass through the loop head.
Start ==
  /\ pc = "Start"
  /\ Invoke(current_prompt)
  /\ UNCHANGED <<session_id, final_result, current_prompt, output, raised,
                 resultAfterQ, lastAnswer>>
  /\ UNCHANGED <<adapterVars, registryVars, sideVars>>

\* Variant: the identifier is overwritten by every event.
RecordSessionAlways(e, sid) == SessionID(e)

\* New value of session_id after event e.
RecordSession(e, sid) == IF SessionID(e) # "" THEN SessionID(e) ELSE sid

\* Variant: the loop goes on draining after an agent error.
DrainingAfterFailure == pc \in {"Sending", "Failed"}

\* The for loop is still iterating over the invocation's events.
Draining == pc = "Sending"

\* Body of the for loop for one event e.
Receive(e) ==
  /\ Draining
  /\ Len(received) < MaxEvents
  /\ received' = Append(received, e)
  /\ session_id' = RecordSession(e, session_id)
  /\ LET text == TextContent(e) IN
       IF text # << >>
       THEN /\ textLog' = Append(textLog, text)
            /\ questions_found' = questions_found \o detect_questions(text)
       ELSE UNCHANGED <<textLog, questions_found>>
  /\ IF IsResult(e)
     THEN IF IsError(e)
          THEN /\ pc' = "Failed"
               /\ raised' = AgentError(ResultText(e))
               /\ UNCHANGED <<final_result, resultAfterQ>>
          ELSE /\ final_result' = ResultText(e)
               /\ resultAfterQ' = (\E i \in DOMAIN received :
                                      QuestionsIn(received[i]) # << >>)
               /\ UNCHANGED <<pc, raised>>
     ELSE UNCHANGED <<pc, raised, final_result, resultAfterQ>>
  /\ UNCHANGED <<current_prompt, output, runs, asks, askArg, streamErr,
                 closed, lastAnswer>>
  /\ UNCHANGED <<adapterVars, registryVars, sideVars>>

\* The generator is exhausted without an error: the code after the for loop.
StreamClose ==
  /\ pc = "Sending"
  /\ closed' = TRUE
  /\ IF questions_found # << >>
     THEN /\ pc' = "AwaitingAnswer"
          /\ asks' = asks + 1
          /\ askArg' = questions_found
          /\ UNCHANGED <<output, raised>>
     ELSE IF final_result # ""
          THEN /\ pc' = "Done"
               /\ output' = final_result
               /\ UNCHANGED <<raised, asks, askArg>>
          ELSE /\ pc' = "Failed"
               /\ raised' = NoResultError
               /\ UNCHANGED <<output, asks, askArg>>
  /\ UNCHANGED <<session_id, final_result, questions_found, current_prompt,
                 runs, received, textLog, streamErr, resultAfterQ, lastAnswer>>
  /\ UNCHANGED <<adapterVars, registryVars, sideVars>>

\* Variant: a process failure is dropped once a result has been recorded.
StreamErrorAfterResultIgnored(err) ==
  /\ pc = "Sending"
  /\ streamErr' = err
  /\ IF final_result # ""
     THEN pc' = "Done" /\ output' = final_result /\ raised' = raised
     ELSE pc' = "Failed" /\ raised' = err /\ output' = output
  /\ UNCHANGED <<session_id, final_result, questions_found, current_prompt,
                 runs, received, textLog, asks, askArg, closed,
                 resultAfterQ, lastAnswer>>
  /\ UNCHANGED <<adapterVars, registryVars, sideVars>>

\* run_claude raises after its output ended: the error leaves run_plan.
StreamError(err) ==
  /\ pc = "Sending"
  /\ pc' = "Failed"
  /\ raised' = err
  /\ streamErr' = err
  /\ UNCHANGED <<session_id, final_result, questions_found, current_prompt,
                 output, runs, received, textLog, asks, askArg, closed,
                 resultAfterQ, lastAnswer>>
  /\ UNCHANGED <<adapterVars, registryVars, sideVars>>

\* Variant: the loop takes the answer and asks again without resuming.
AnswerAsksAgain(answer) ==
  /\ pc = "AwaitingAnswer"
  /\ lastAnswer' = answer
  /\ UNCHANGED <<pc, session_id, final_result, questions_found,
                 current_prompt, output, raised, runs, received, textLog,
                 asks, askArg, streamErr, closed, resultAfterQ>>
  /\ UNCHANGED <<adapterVars, registryVars, sideVars>>

\* Variant: the loop resumes with the prompt of the turn before.
AnswerStalePrompt(answer) ==
  /\ pc = "AwaitingAnswer"
  /\ Len(runs) < MaxTurns
  /\ lastAnswer' = answer
  /\ current_prompt' = current_prompt
  /\ Invoke(current_prompt)
  /\ UNCHANGED <<session_id, final_result, output, raised, resultAfterQ>>
  /\ UNCHANGED <<adapterVars, registryVars, sideVars>>

\* The answer callback returns answer: it is the next prompt, and the loop
\* continues with its head.
Answer(answer) ==
  /\ pc = "AwaitingAnswer"
  /\ Len(runs) < MaxTurns
  /\ lastAnswer' = answer
  /\ current_prompt' = answer
  /\ Invoke(current_prompt')
  /\ UNCHANGED <<session_id, final_result, output, raised, resultAfterQ>>
  /\ UNCHANGED <<adapterVars, registryVars, sideVars>>

Next ==
  \/ \E name \in Names : CreateRunner(name)
  \/ Start
  \/ \E e \in Events : Receive(e)
  \/ StreamClose
  \/ \E err \in TransportErrors : StreamError(err)
  \/ \E a \in Answers : Answer(a)

Spec == Init /\ [][Next]_vars

\* The loop under the conditions its termination depends on.  Questions are
\* detected in finitely many turns: the last turn the model allows brings
\* none.  Every invocation ends, its output exhausted or an error raised;
\* the answer callback returns; the code before the loop runs.
ReceiveInFinitelyManyTurns(e) ==
  /\ Len(runs) = MaxTurns => QuestionsIn(e) = << >>
  /\ Receive(e)

EndOfStream == StreamClose \/ \E err \in TransportErrors : StreamError(err)

TerminatingNext ==
  \/ \E name \in Names : CreateRunner(name)
  \/ Start
  \/ \E e \in Events : ReceiveInFinitelyManyTurns(e)
  \/ StreamClose
  \/ \E err \in TransportErrors : StreamError(err)
  \/ \E a \in Answers : Answer(a)

TerminatingSpec ==
  /\ Init /\ [][TerminatingNext]_vars
  /\ WF_vars(\E name \in Names : CreateRunner(name))
  /\ WF_vars(Start)
  /\ WF_vars(EndOfStream)
  /\ WF_vars(\E a \in Answers : Answer(a))

(***************************************************************************)
(* Two conversations at once.  Each call of run_plan has its own locals;   *)
(* the loop variables hold those of the conversation that steps next, and  *)
(* other holds those of the conversation that waits.  A switch of the      *)
(* scheduler exchanges the two.                                            *)
(***************************************************************************)
\* Bounds of the two-conversation model.
\* Largest number of events in one turn of either conversation.
MaxConcEvents == 1
\* Largest number of backend invocations in either conversation.
MaxConcTurns == 2

\* The events and the answers of the two conversations.
ConcEvents ==
  SystemEvents
  \cup { e \in AssistantEvents :
           e.content = <<TextBlock(OneQ)>> }
  \cup { e \in ResultEvents : e.result = "r1" }
ConcAnswers == { <<"a1">> }

ConcurrentInit ==
  /\ PromptIdle
  /\ PlanInit
  /\ AdapterIdle
  /\ RegistryReady
  /\ other = planVars
  /\ active = 1
  /\ ev = << >>
  /\ ret = << >>
  /\ qtext = << >>
  /\ qfound = << >>

\* Variant: the session identifier is one variable shared by both
\* conversations.
SwitchSharingSession ==
  /\ other' = planVars
  /\ active' = 3 - active
  /\ pc' = other[1]
  /\ session_id' = session_id
  /\ final_result' = other[3]
  /\ questions_found' = other[4]
  /\ current_prompt' = other[5]
  /\ output' = other[6]
  /\ raised' = other[7]
  /\ runs' = other[8]
  /\ received' = other[9]
  /\ textLog' = other[10]
  /\ asks' = other[11]
  /\ askArg' = other[12]
  /\ streamErr' = other[13]
  /\ closed' = other[14]
  /\ resultAfterQ' = other[15]
  /\ lastAnswer' = other[16]
  /\ UNCHANGED <<adapterVars, registryVars, accessorVars, questionVars, promptVars>>

\* The scheduler turns to the other conversation.
Switch ==
  /\ other' = planVars
  /\ active' = 3 - active
  /\ pc' = other[1]
  /\ session_id' = other[2]
  /\ final_result' = other[3]
  /\ questions_found' = other[4]
  /\ current_prompt' = other[5]
  /\ output' = other[6]
  /\ raised' = other[7]
  /\ runs' = other[8]
  /\ received' = other[9]
  /\ textLog' = other[10]
  /\ asks' = other[11]
  /\ askArg' = other[12]
  /\ streamErr' = other[13]
  /\ closed' = other[14]
  /\ resultAfterQ' = other[15]
  /\ lastAnswer' = other[16]
  /\ UNCHANGED <<adapterVars, registryVars, accessorVars, questionVars, promptVars>>

\* Either the scheduler switches or the conversation whose turn it is steps.
ConcurrentNext ==
  \/ Switch
  \/ \E name \in Names : CreateRunner(name)
  \/ Start
  \/ \E e \in ConcEvents : Len(received) < MaxConcEvents /\ Receive(e)
  \/ StreamClose
  \/ \E err \in TransportErrors : StreamError(err)
  \/ \E a \in ConcAnswers : Len(runs) < MaxConcTurns /\ Answer(a)

ConcurrentSpec == ConcurrentInit /\ [][ConcurrentNext]_vars

(***************************************************************************)
(* Properties of the session loop.                                         *)
(***************************************************************************)
\* An assistant event with a detected question is followed, in the same
\* turn, by a result event that is no error.
ScenarioD(evs) ==
  \E i, j \in DOMAIN evs :
    i < j /\ QuestionsIn(evs[i]) # << >> /\ OkResult(evs[j])

ErrIn(evs) == \E i \in DOMAIN evs : ErrResult(evs[i])

\* C1: when a turn's assistant event with a detected question is followed by
\* a non-error result and the stream closes, the loop is in AwaitingAnswer,
\* not Done, and a result delivered after a question in its turn is never
\* what the caller gets as the final result.
C1_QuestionsPreemptResult ==
  /\ (closed /\ ScenarioD(received)) => pc = "AwaitingAnswer"
  /\ pc = "Done" => ~ resultAfterQ

\* C2: Done is reached only at the end of a turn that closed without an
\* error-stream value, accumulated no question and delivered a non-error
\* result event, and the caller gets that event's result text.
C2_DoneOnlyAfterCleanResult ==
  pc = "Done" =>
    /\ closed
    /\ streamErr = << >>
    /\ TurnQuestions(received) = << >>
    /\ \E i \in DOMAIN received :
         OkResult(received[i]) /\ output = received[i].result

\* C3 as stated: an error result ends the loop in Failed and the failure
\* message is equal to the event's result text.
C3_MessageEqualsResultText ==
  \A i \in DOMAIN received :
    ErrResult(received[i]) => pc = "Failed" /\ raised = <<received[i].result>>

\* C3 amended: an error result ends the loop in Failed and the failure
\* message is "Agent error: " followed by the event's result text.
C3_AgentErrorMessage ==
  \A i \in DOMAIN received :
    ErrResult(received[i]) =>
      pc = "Failed" /\ raised = <<"Agent error: ", received[i].result>>

\* Scenario E: the turn's only event is an error result.
C3_Witness ==
  pc = "Failed" /\ Len(received) = 1 /\ ErrResult(received[1])

\* C4: once a turn has delivered an error result the loop is in Failed even
\* if questions were accumulated before it, the answer callback is not
\* called for that turn and the runner is not invoked again.
C4_ErrorResultBeatsQuestions ==
  [][ /\ ErrIn(received') => (pc' = "Failed" /\ asks' = 0)
      /\ ErrIn(received) => UNCHANGED <<pc, runs, asks>> ]_vars

C4_Witness ==
  pc = "Failed" /\ ErrIn(received) /\ TurnQuestions(received) # << >>

\* C5: when the invocation's error stream yields a value the loop ends in
\* Failed with that very error, also after a non-error result or questions in
\* the same turn; neither Done nor AwaitingAnswer is entered for the turn.
C5_StreamErrorFails ==
  [][ /\ streamErr' # << >> =>
           (pc' = "Failed" /\ raised' = streamErr' /\ asks' = 0 /\ output' = "")
      /\ streamErr # << >> => UNCHANGED <<pc, runs, raised>> ]_vars

C5_Witness ==
  /\ streamErr # << >>
  /\ TurnQuestions(received) # << >>
  /\ \E i \in DOMAIN received : OkResult(received[i])

\* C6: Done and Failed are terminal: from either the loop never invokes the
\* runner, the text callback or the answer callback again, and the value or
\* error handed to the caller stays the one it was; a failure carries an
\* error and no result.
C6_TerminalStatesAreFinal ==
  [][ /\ pc \in {"Done", "Failed"} =>
           UNCHANGED <<pc, runs, textLog, asks, askArg, output, raised>>
      /\ pc' = "Failed" => (raised' # << >> /\ output' = "") ]_vars

\* A backend failure in a resumed turn that had echoed text.
C6_Witness ==
  pc = "Failed" /\ streamErr # << >> /\ Len(runs) = 2 /\ textLog # << >>

\* The invocation made by the step that leaves AwaitingAnswer.
Resumed == runs'[Len(runs')]

C9_OnQuestionOncePerTurn ==
  /\ asks = (IF closed /\ TurnQuestions(received) # << >> THEN 1 ELSE 0)
  /\ asks = 1 => (pc = "AwaitingAnswer" /\ askArg = TurnQuestions(received))
  /\ asks = 0 => askArg = << >>

\* A second turn, after one that had questions, asks its own three questions.
C9_Witness ==
  Len(runs) = 2 /\ asks = 1 /\ askArg = <<Q2, Q3, Q1>>

\* Texts of the assistant events of a turn, one per event.
RECURSIVE AssistantTexts(_)
AssistantTexts(evs) ==
  IF evs = << >> THEN << >>
  ELSE IF Head(evs).type = "assistant"
       THEN <<AssistantText(Head(evs))>> \o AssistantTexts(Tail(evs))
       ELSE AssistantTexts(Tail(evs))

\* The same without the events whose text is empty.
RECURSIVE NonEmptyAssistantTexts(_)
NonEmptyAssistantTexts(evs) ==
  IF evs = << >> THEN << >>
  ELSE IF AssistantText(Head(evs)) # << >>
       THEN <<AssistantText(Head(evs))>> \o NonEmptyAssistantTexts(Tail(evs))
       ELSE NonEmptyAssistantTexts(Tail(evs))

RECURSIVE DetectAll(_)
DetectAll(texts) ==
  IF texts = << >> THEN << >>
  ELSE detect_questions(Head(texts)) \o DetectAll(Tail(texts))

\* C10 as stated: the text callback is called once for each assistant event
\* received, with its text and in order of arrival, and for no other event.
C10_OnTextPerAssistantEvent == textLog = AssistantTexts(received)

\* C10 amended: the text callback is called once for each assistant event
\* whose text is not empty, with its text and in order of arrival, and for
\* no other event; the questions of the turn are those detected in these
\* same texts.
C10_OnTextPerNonEmptyText ==
  /\ textLog = NonEmptyAssistantTexts(received)
  /\ questions_found = DetectAll(textLog)

\* Two different texts were echoed in one turn, the second with a question.
C10_Witness ==
  /\ Len(textLog) = 2
  /\ textLog[1] = Plain
  /\ textLog[2] = OneQ
  /\ questions_found = <<Q1>>

(***************************************************************************)
(* The claude backend adapter: Claude.Run and run.                         *)
(*                                                                         *)
(* A line of the backend's output is a token.  The tokens that are fields  *)
(* of LineDocs stand for lines holding one JSON object; "null" is the JSON *)
(* literal; "" is the empty line; "huge" is a line as long as the          *)
(* scanner's buffer; every other token is text that is not JSON.           *)
(***************************************************************************)
\* Bounds of the adapter model.
\* Largest number of lines in an output whose lines differ.
MaxLines == 3
\* Number of lines in an output of identical event lines.
MaxBurst == 66

\* Capacity of the events channel.
EventCap == 64

\* Capacity of the error channel.
ErrCap == 1

\* Size of the scanner's buffer, the longest line it accepts plus one.
MaxTokenSize == 1024 * 1024

\* The JSON objects the lines decode to.
LineDocs ==
  [ sys    |-> [type |-> "system", session_id |-> "s1"],
    res    |-> [type |-> "result", result |-> "r1"],
    notype |-> [session_id |-> "s1"],
    other  |-> [type |-> "ping"] ]

\* The lines of the model.
LineKinds == {"", "noise", "null", "huge"} \cup DOMAIN LineDocs

\* Length of a line in bytes.
LineBytes(line) ==
  CASE line = ""     -> 0
    [] line = "huge" -> MaxTokenSize
    [] OTHER         -> 4

\* scanner.Scan fails with ErrTooLong: no newline within the full buffer.
TooLong(line) == LineBytes(line) >= MaxTokenSize

\* json.Unmarshal of a line into a map[string]any.  The literal null is
\* accepted and leaves the map nil, which reads as the empty map.
Unmarshal(line) ==
  IF line \in DOMAIN LineDocs THEN [ok |-> TRUE, data |-> LineDocs[line]]
  ELSE IF line = "null" THEN [ok |-> TRUE, data |-> << >>]
  ELSE [ok |-> FALSE, data |-> << >>]

\* data["type"].(string): the empty string when the key is absent.
EventType(data) == IF "type" \in DOMAIN data THEN data.type ELSE ""

\* Variant: a line without a type is dropped.
DecodeDropsUntyped(line) ==
  LET u == Unmarshal(line) IN
    IF u.ok /\ EventType(u.data) # ""
    THEN <<[Type |-> EventType(u.data), Data |-> u.data]>>
    ELSE << >>

\* The body of the scan loop for one line: the Events it sends.
Decode(line) ==
  LET u == Unmarshal(line) IN
    IF line # "" /\ u.ok
    THEN <<[Type |-> EventType(u.data), Data |-> u.data]>>
    ELSE << >>

\* strings.Join(elems, ",").
RECURSIVE JoinComma(_)
JoinComma(elems) ==
  IF elems = << >> THEN ""
  ELSE IF Len(elems) = 1 THEN elems[1]
  ELSE elems[1] \o "," \o JoinComma(Tail(elems))

\* Variant: the resume flag is passed whatever the session identifier.
ResumeArgsAlways(sid) == <<"--resume", sid>>

\* The arguments that resume a session.
ResumeArgs(sid) == IF sid # "" THEN <<"--resume", sid>> ELSE << >>

\* Variant: the executable is claude whatever the configuration names.
BuildCmdHardcoded(o) ==
  <<"claude", "-p", o.Prompt>>
  \o (IF o.SystemPrompt # "" THEN <<"--system-prompt", o.SystemPrompt>>
      ELSE << >>)
  \o o.Args
  \o (IF Len(o.AllowedTools) > 0
      THEN <<"--allowedTools", JoinComma(o.AllowedTools)>> ELSE << >>)
  \o (IF o.DangerouslySkipPermissions
      THEN <<"--dangerously-skip-permissions">> ELSE << >>)
  \o ResumeArgs(o.SessionID)

\* The command line run assembles.
BuildCmd(o) ==
  <<o.Command, "-p", o.Prompt>>
  \o (IF o.SystemPrompt # "" THEN <<"--system-prompt", o.SystemPrompt>>
      ELSE << >>)
  \o o.Args
  \o (IF Len(o.AllowedTools) > 0
      THEN <<"--allowedTools", JoinComma(o.AllowedTools)>> ELSE << >>)
  \o (IF o.DangerouslySkipPermissions
      THEN <<"--dangerously-skip-permissions">> ELSE << >>)
  \o ResumeArgs(o.SessionID)

\* The errors run returns.
GetwdError == <<"getting working directory: ", "getwd">>
PipeError == <<"creating stdout pipe: ", "pipe">>
StartError == <<"starting claude process: ", "exec">>

\* Variant: the exit status of the process is dropped.
WaitResultIgnoresExit(status) == << >>

\* proc.Wait and the wrapping of its error.
WaitResult(status) ==
  IF status # 0
  THEN <<"claude process exited with error: ", "exit status 1">>
  ELSE << >>

\* Variant: a send puts the event at the head of the buffer.
EnqueueFront(buf, e) == <<e>> \o buf

\* A send on a buffered channel.
Enqueue(buf, e) == Append(buf, e)

\* The RunOptions of the model.
DefaultArgs == <<"--output-format", "stream-json", "--verbose">>
AllOpts ==
  [ Command : {"claude", "zed"},
    Prompt : {"do it"},
    SystemPrompt : {"", "be brief"},
    SessionID : {"", "s1", "s2"},
    CWD : {"", "/work"},
    Args : {<< >>, DefaultArgs},
    AllowedTools : {<< >>, <<"Bash", "Read">>},
    DangerouslySkipPermissions : BOOLEAN ]
PlainOpts ==
  [ Command |-> "claude", Prompt |-> "do it", SystemPrompt |-> "",
    SessionID |-> "", CWD |-> "/work", Args |-> DefaultArgs,
    AllowedTools |-> << >>, DangerouslySkipPermissions |-> FALSE ]

\* The outputs of the model: every short sequence of lines, and one long
\* run of event lines that overfills the events channel.
RECURSIVE SeqsUpTo(_, _)
SeqsUpTo(S, n) ==
  IF n = 0 THEN { << >> }
  ELSE LET shorter == SeqsUpTo(S, n - 1) IN
         shorter \cup { Append(q, x) : q \in shorter, x \in S }
ShortOutputs == SeqsUpTo(LineKinds, MaxLines)
Burst == [i \in 1..MaxBurst |-> "sys"]

\* The scanner stops before the end of the output.
HasTail(out) == \E i \in DOMAIN out : TooLong(out[i]) /\ i < Len(out)

\* The state when Claude.Run has returned its two channels.  The inputs
\* vary the options with no output, then the output with plain options.
AdapterInit ==
  /\ PlanIdle
  /\ RegistryIdle
  /\ SideIdle
  /\ \/ /\ opts \in AllOpts
        /\ stdout = << >>
        /\ fail \in {"none", "getwd", "pipe", "start"}
        /\ fail = "getwd" => opts.CWD = ""
     \/ /\ opts = PlainOpts
        /\ stdout \in ShortOutputs \cup {Burst}
        /\ fail = "none"
  /\ exitStatus \in {0, 1}
  /\ fail # "none" => exitStatus = 0
  /\ bigTail \in BOOLEAN
  /\ bigTail => HasTail(stdout)
  /\ wpc = "launch"
  /\ cmd = << >>
  /\ scanned = 0
  /\ pending = << >>
  /\ events = << >>
  /\ eventsCloses = 0
  /\ errc = << >>
  /\ errcCloses = 0
  /\ runErr = << >>
  /\ cpc = "events"
  /\ got = << >>
  /\ gotErr = << >>

\* Variant: the goroutine returns as soon as run has returned, leaving the
\* error channel alone.
AfterRunSkipsErrc(err) == "closeevents"

\* What the goroutine does once run has returned err.
AfterRun(err) == IF err # << >> THEN "senderr" ELSE "closeerrc"

\* Variant: the errors of the launch are dropped and run goes on to read.
LaunchIgnoresFailure ==
  /\ wpc = "launch"
  /\ cmd' = BuildCmd(opts)
  /\ wpc' = "scan"
  /\ UNCHANGED <<opts, fail, stdout, exitStatus, bigTail, scanned, pending,
                 events, eventsCloses, errc, errcCloses, runErr, cpc, got,
                 gotErr>>
  /\ UNCHANGED <<planVars, registryVars, sideVars>>

\* run up to the scan loop: the command line, the working directory, the
\* pipe and the start of the process.
Launch ==
  /\ wpc = "launch"
  /\ cmd' = BuildCmd(opts)
  /\ runErr' = CASE fail = "getwd" -> GetwdError
                 [] fail = "pipe"  -> PipeError
                 [] fail = "start" -> StartError
                 [] OTHER          -> << >>
  /\ wpc' = IF fail = "none" THEN "scan" ELSE AfterRun(runErr')
  /\ UNCHANGED <<opts, fail, stdout, exitStatus, bigTail, scanned, pending,
                 events, eventsCloses, errc, errcCloses, cpc, got, gotErr>>
  /\ UNCHANGED <<planVars, registryVars, sideVars>>

\* One scanner.Scan with the loop body up to the send.  Scan returns false
\* at the end of the output and on a line that is too long; the loop ends
\* either way and run goes on to proc.Wait.
Scan ==
  /\ wpc = "scan"
  /\ IF scanned < Len(stdout) /\ ~TooLong(stdout[scanned + 1])
     THEN /\ scanned' = scanned + 1
          /\ LET evs == Decode(stdout[scanned + 1]) IN
               IF evs # << >>
               THEN pending' = evs[1] /\ wpc' = "send"
               ELSE pending' = pending /\ wpc' = "scan"
     ELSE /\ wpc' = "wait"
          /\ UNCHANGED <<scanned, pending>>
  /\ UNCHANGED <<opts, fail, stdout, exitStatus, bigTail, cmd, events,
                 eventsCloses, errc, errcCloses, runErr, cpc, got, gotErr>>
  /\ UNCHANGED <<planVars, registryVars, sideVars>>

\* Variant: the send does not wait for room in the buffer.
SendWithoutRoom ==
  /\ wpc = "send"
  /\ events' = Enqueue(events, pending)
  /\ pending' = << >>
  /\ wpc' = "scan"
  /\ UNCHANGED <<opts, fail, stdout, exitStatus, bigTail, cmd, scanned,
                 eventsCloses, errc, errcCloses, runErr, cpc, got, gotErr>>
  /\ UNCHANGED <<planVars, registryVars, sideVars>>

\* events <- Event: blocks while the buffer is full.
Send ==
  /\ wpc = "send"
  /\ Len(events) < EventCap
  /\ events' = Enqueue(events, pending)
  /\ pending' = << >>
  /\ wpc' = "scan"
  /\ UNCHANGED <<opts, fail, stdout, exitStatus, bigTail, cmd, scanned,
                 eventsCloses, errc, errcCloses, runErr, cpc, got, gotErr>>
  /\ UNCHANGED <<planVars, registryVars, sideVars>>

\* The process can exit: it is not stuck writing output nobody reads.
ProcessExits == ~(bigTail /\ scanned < Len(stdout))

\* proc.Wait returns once the process has exited; run returns.
Wait ==
  /\ wpc = "wait"
  /\ ProcessExits
  /\ runErr' = WaitResult(exitStatus)
  /\ wpc' = AfterRun(runErr')
  /\ UNCHANGED <<opts, fail, stdout, exitStatus, bigTail, cmd, scanned,
                 pending, events, eventsCloses, errc, errcCloses, cpc, got,
                 gotErr>>
  /\ UNCHANGED <<planVars, registryVars, sideVars>>

\* Variant: the error channel has no buffer, so the send waits for the
\* caller to be receiving from it.
SendErrUnbuffered ==
  /\ wpc = "senderr"
  /\ cpc = "errc"
  /\ gotErr' = Append(gotErr, runErr)
  /\ cpc' = "done"
  /\ wpc' = "closeerrc"
  /\ UNCHANGED <<opts, fail, stdout, exitStatus, bigTail, cmd, scanned,
                 pending, events, eventsCloses, errc, errcCloses, runErr, got>>
  /\ UNCHANGED <<planVars, registryVars, sideVars>>

\* errc <- err.
SendErr ==
  /\ wpc = "senderr"
  /\ Len(errc) < ErrCap
  /\ errc' = Enqueue(errc, runErr)
  /\ wpc' = "closeerrc"
  /\ UNCHANGED <<opts, fail, stdout, exitStatus, bigTail, cmd, scanned,
                 pending, events, eventsCloses, errcCloses, runErr, cpc, got,
                 gotErr>>
  /\ UNCHANGED <<planVars, registryVars, sideVars>>

\* close(errc).
CloseErrc ==
  /\ wpc = "closeerrc"
  /\ errcCloses' = errcCloses + 1
  /\ wpc' = "closeevents"
  /\ UNCHANGED <<opts, fail, stdout, exitStatus, bigTail, cmd, scanned,
                 pending, events, eventsCloses, errc, runErr, cpc, got,
                 gotErr>>
  /\ UNCHANGED <<planVars, registryVars, sideVars>>

\* Variant: the goroutine returns without closing the events channel.
CloseEventsMissing ==
  /\ wpc = "closeevents"
  /\ wpc' = "done"
  /\ UNCHANGED <<opts, fail, stdout, exitStatus, bigTail, cmd, scanned,
                 pending, events, eventsCloses, errc, errcCloses, runErr,
                 cpc, got, gotErr>>
  /\ UNCHANGED <<planVars, registryVars, sideVars>>

\* The deferred close(events), as the goroutine returns.
CloseEvents ==
  /\ wpc = "closeevents"
  /\ eventsCloses' = eventsCloses + 1
  /\ wpc' = "done"
  /\ UNCHANGED <<opts, fail, stdout, exitStatus, bigTail, cmd, scanned,
                 pending, events, errc, errcCloses, runErr, cpc, got, gotErr>>
  /\ UNCHANGED <<planVars, registryVars, sideVars>>

\* The caller receives one event.
RecvEvent ==
  /\ cpc = "events"
  /\ events # << >>
  /\ got' = Append(got, Head(events))
  /\ events' = Tail(events)
  /\ UNCHANGED <<opts, fail, stdout, exitStatus, bigTail, wpc, cmd, scanned,
                 pending, eventsCloses, errc, errcCloses, runErr, cpc, gotErr>>
  /\ UNCHANGED <<planVars, registryVars, sideVars>>

\* The caller finds the events channel closed and drained.
RecvEventsClosed ==
  /\ cpc = "events"
  /\ events = << >>
  /\ eventsCloses > 0
  /\ cpc' = "errc"
  /\ UNCHANGED <<opts, fail, stdout, exitStatus, bigTail, wpc, cmd, scanned,
                 pending, events, eventsCloses, errc, errcCloses, runErr, got,
                 gotErr>>
  /\ UNCHANGED <<planVars, registryVars, sideVars>>

\* The caller receives from the error channel: the buffered error, or nil
\* from the closed channel.
RecvErr ==
  /\ cpc = "errc"
  /\ errc # << >> \/ errcCloses > 0
  /\ IF errc # << >>
     THEN gotErr' = Append(gotErr, Head(errc)) /\ errc' = Tail(errc)
     ELSE UNCHANGED <<gotErr, errc>>
  /\ cpc' = "done"
  /\ UNCHANGED <<opts, fail, stdout, exitStatus, bigTail, wpc, cmd, scanned,
                 pending, events, eventsCloses, errcCloses, runErr, got>>
  /\ UNCHANGED <<planVars, registryVars, sideVars>>

\* The steps of the worker goroutine and of the caller.
Worker ==
  \/ Launch
  \/ Scan
  \/ Send
  \/ Wait
  \/ SendErr
  \/ CloseErrc
  \/ CloseEvents

Caller ==
  \/ RecvEvent
  \/ RecvEventsClosed
  \/ RecvErr

AdapterNext ==
  \/ Launch
  \/ Scan
  \/ Send
  \/ Wait
  \/ SendErr
  \/ CloseErrc
  \/ CloseEvents
  \/ RecvEvent
  \/ RecvEventsClosed
  \/ RecvErr

AdapterSpec == AdapterInit /\ [][AdapterNext]_vars

\* The Go scheduler runs every goroutine that can take a step, and the
\* caller keeps receiving.
FairAdapterSpec ==
  /\ AdapterInit
  /\ [][AdapterNext]_vars
  /\ WF_vars(Worker)
  /\ WF_vars(Caller)

(***************************************************************************)
(* Properties of the backend adapter.                                      *)
(***************************************************************************)
\* The events the worker has produced so far, oldest first: those the
\* caller has received, those in the buffer, and the one being sent.
Produced == got \o events \o (IF wpc = "send" THEN <<pending>> ELSE << >>)

\* Errors put on the error channel so far.
ErrorsSent == Len(gotErr) + Len(errc)

\* The goroutine has returned.
WorkerDone == wpc = "done"

Abnormal == fail # "none" \/ exitStatus # 0

\* C12: the error stream gets at most one value, always non-nil and always
\* before the stream is closed; when the worker has finished the stream is
\* closed, and a value was sent exactly when the backend ended abnormally.
C12_OneErrorIffAbnormal ==
  /\ ErrorsSent <= 1
  /\ errcCloses <= 1
  /\ \A i \in DOMAIN errc : errc[i] # << >>
  /\ \A i \in DOMAIN gotErr : gotErr[i] # << >>
  /\ wpc = "senderr" => errcCloses = 0
  /\ WorkerDone => errcCloses = 1 /\ (ErrorsSent = 1 <=> Abnormal)

\* The caller has received the error of a process that exited nonzero
\* after producing events.
C12_Witness ==
  /\ WorkerDone /\ cpc = "done"
  /\ exitStatus = 1 /\ Len(gotErr) = 1 /\ got # << >>

\* The scan loop ended on a line longer than the scanner's buffer.
StoppedOnLongLine ==
  /\ fail = "none"
  /\ wpc \notin {"launch", "scan", "send"}
  /\ scanned < Len(stdout)

\* C13: after a line that exceeds the scanner's buffer the worker is not
\* left waiting on the process, and it finishes with exactly one error on
\* the error stream and both streams closed.
C13_LongLineIsFatal ==
  StoppedOnLongLine =>
    /\ ProcessExits
    /\ WorkerDone => ErrorsSent = 1 /\ eventsCloses = 1 /\ errcCloses = 1

\* The events of a sequence of lines, in the order of the lines.
RECURSIVE LineEvents(_)
LineEvents(ls) ==
  IF ls = << >> THEN << >>
  ELSE LET u == Unmarshal(Head(ls)) IN
         (IF Head(ls) # "" /\ u.ok
          THEN <<[Type |-> EventType(u.data), Data |-> u.data]>>
          ELSE << >>) \o LineEvents(Tail(ls))

\* C14: the events reach the caller in the order of the lines they come
\* from, and each is handed over before the next line is read: what was
\* received, then what is buffered, then the event being sent, is the
\* sequence of events of the lines read so far.
C14_EventsInLineOrder == Produced = LineEvents(SubSeq(stdout, 1, scanned))

\* Two different events were received, in the order of their lines.
C14_Witness ==
  /\ Len(got) >= 2
  /\ got[1] # got[2]
  /\ cpc = "done"

\* The lines that hold a JSON object.
ObjectLines(ls) == {i \in DOMAIN ls : ls[i] \in DOMAIN LineDocs}

\* C15: when the whole output has been read, the events delivered are as
\* many as the lines that hold a JSON object, and a clean exit puts
\* nothing on the error stream whatever the other lines are.
C15_OnlyObjectLinesYieldEvents ==
  (fail = "none" /\ WorkerDone /\ scanned = Len(stdout)) =>
    /\ Len(Produced) = Cardinality(ObjectLines(stdout))
    /\ exitStatus = 0 => ErrorsSent = 0

\* The payloads of the lines that decode, in the order of the lines.
RECURSIVE DecodedDocs(_)
DecodedDocs(ls) ==
  IF ls = << >> THEN << >>
  ELSE (IF Head(ls) # "" /\ Unmarshal(Head(ls)).ok
        THEN <<Unmarshal(Head(ls)).data>> ELSE << >>)
       \o DecodedDocs(Tail(ls))

\* The kind of an event type, and the kind a payload announces.
KnownKinds == {"system", "assistant", "result"}
KindOfType(t) == IF t \in KnownKinds THEN t ELSE "unknown"
KindOfDoc(d) ==
  IF "type" \in DOMAIN d /\ d.type \in KnownKinds THEN d.type ELSE "unknown"

\* C16: every line that decodes yields exactly one Event; its payload is
\* the decoded object and its kind is the one the payload's type field
\* announces, unknown when the field is absent or not a known kind.
C16_OneEventPerDecodedLine ==
  LET docs == DecodedDocs(SubSeq(stdout, 1, scanned)) IN
    /\ Len(Produced) = Len(docs)
    /\ \A i \in DOMAIN docs :
         /\ Produced[i].Data = docs[i]
         /\ KindOfType(Produced[i].Type) = KindOfDoc(docs[i])

\* The caller received an event for a line without a type and one for a
\* line with an unrecognized type.
C16_Witness ==
  /\ \E i \in DOMAIN got : got[i].Data = LineDocs.notype /\ got[i].Type = ""
  /\ \E i \in DOMAIN got : got[i].Data = LineDocs.other
                           /\ KindOfType(got[i].Type) = "unknown"

\* Positions of the resume flag in the command line.
ResumeFlags == {i \in DOMAIN cmd : cmd[i] = "--resume"}

\* C17: once the command line is built, it holds the resume flag followed
\* by the session identifier of the RunOptions exactly when that
\* identifier is not empty, and no resume flag otherwise.
C17_ResumeIffSessionID ==
  wpc # "launch" =>
    IF opts.SessionID # ""
    THEN \E i \in 1..(Len(cmd) - 1) :
           /\ ResumeFlags = {i}
           /\ cmd[i + 1] = opts.SessionID
    ELSE ResumeFlags = {}

\* A command line that resumes session s2 with every other option set.
C17_Witness ==
  /\ wpc # "launch"
  /\ opts.SessionID = "s2"
  /\ opts.SystemPrompt # "" /\ opts.AllowedTools # << >>
  /\ opts.DangerouslySkipPermissions
  /\ cmd[Len(cmd)] = "s2"

\* C18: the events sent and not yet received never exceed the capacity of
\* the channel, and while the buffer is full and the worker is at its send
\* the worker stays there and reads no further line.
C18_Backpressure ==
  [][ /\ Len(events') <= EventCap
      /\ (wpc = "send" /\ Len(events) = EventCap) =>
           /\ scanned' = scanned
           /\ wpc' = "send"
           /\ pending' = pending ]_vars

\* The worker is blocked on a full buffer.
C18_Witness == wpc = "send" /\ Len(events) = EventCap

\* The worker has terminated and both streams are closed.
WorkerTerminated == WorkerDone /\ eventsCloses = 1 /\ errcCloses = 1

\* C19: with a caller that receives from the event stream until it is
\* closed and then from the error stream, and a backend process that is
\* never left unable to exit, the worker eventually terminates with both
\* streams closed.
C19_WorkerEventuallyTerminates == ([]ProcessExits) => <>WorkerTerminated

\* The caller has drained an output longer than the buffer, and the worker
\* has terminated.
C19_Witness ==
  /\ WorkerTerminated
  /\ cpc = "done"
  /\ Len(got) > EventCap

(***************************************************************************)
(* The runner registry: Register and NewRunner.                            *)
(*                                                                         *)
(* A constructor is a token; the Runner it returns records which           *)
(* constructor made it.                                                    *)
(***************************************************************************)
\* Largest number of Register calls.
MaxRegisters == 3

RegistryInit ==
  /\ PlanIdle
  /\ AdapterIdle
  /\ SideIdle
  /\ registry = << >>
  /\ registered = << >>
  /\ lookup = << >>

\* Variant: a name that is already registered keeps its constructor.
RegisterKeepsFirst(name, constructor) ==
  /\ Len(registered) < MaxRegisters
  /\ registry' = [n \in DOMAIN registry \cup {name} |->
                    IF n \in DOMAIN registry THEN registry[n]
                    ELSE constructor]
  /\ registered' = Append(registered, [name |-> name, ctor |-> constructor])
  /\ UNCHANGED lookup
  /\ UNCHANGED <<planVars, adapterVars, sideVars>>

\* registry[name] = constructor.
Register(name, constructor) ==
  /\ Len(registered) < MaxRegisters
  /\ registry' = [n \in DOMAIN registry \cup {name} |->
                    IF n = name THEN constructor ELSE registry[n]]
  /\ registered' = Append(registered, [name |-> name, ctor |-> constructor])
  /\ UNCHANGED lookup
  /\ UNCHANGED <<planVars, adapterVars, sideVars>>

\* NewRunner for a configuration whose agent command is name.  The outcome
\* is kept with the number of Register calls that came before it.
NewRunner(name) ==
  /\ lookup' = LookupOf(name)
  /\ UNCHANGED <<registry, registered>>
  /\ UNCHANGED <<planVars, adapterVars, sideVars>>

RegistryNext ==
  \/ \E n \in Names, c \in Constructors : Register(n, c)
  \/ \E n \in Names : NewRunner(n)

RegistrySpec == RegistryInit /\ [][RegistryNext]_vars

(***************************************************************************)
(* Properties of the registry.                                             *)
(***************************************************************************)
\* The Register calls for name n among the first k calls.
CallsFor(n, k) == {i \in 1..k : registered[i].name = n}

\* The largest element of a non-empty set of numbers.
Max(S) == CHOOSE x \in S : \A y \in S : y <= x

\* The step is a call Register(n, c).
IsRegister(n, c) ==
  registered' = Append(registered, [name |-> n, ctor |-> c])

\* C20: a NewRunner call for a registered name returns the Runner of the
\* constructor given by the most recent Register call for that name; a
\* Register call leaves the entries of every other name as they were; and
\* registering a name again with the constructor it already has changes
\* nothing.
C20_RegisterOverwritesOneEntry ==
  /\ [](lookup # << >> /\ CallsFor(lookup.name, lookup.at) # {} =>
          /\ lookup.err = ""
          /\ lookup.runner =
               Construct(registered[Max(CallsFor(lookup.name, lookup.at))].ctor))
  /\ [][ \A n \in Names, c \in Constructors : IsRegister(n, c) =>
           /\ \A m \in Names \ {n} :
                /\ m \in DOMAIN registry' <=> m \in DOMAIN registry
                /\ m \in DOMAIN registry => registry'[m] = registry[m]
           /\ (n \in DOMAIN registry /\ registry[n] = c) =>
                registry' = registry ]_vars

\* A name was registered twice with different constructors, another name
\* in between, and NewRunner returned the Runner of the later constructor.
C20_Witness ==
  /\ Len(registered) = 3
  /\ registered[1].name = "stub" /\ registered[3].name = "stub"
  /\ registered[2].name = "claude"
  /\ registered[1].ctor # registered[3].ctor
  /\ lookup # << >>
  /\ lookup.name = "stub" /\ lookup.at = 3
  /\ lookup.runner = Construct(registered[3].ctor)

\* The names registered by the first k Register calls.
NamesBefore(k) == {registered[i].name : i \in 1..k}

\* The rank of a name in the lexical order of strings.
NameRank == [claude |-> 1, stub |-> 2, zed |-> 3]

\* The listings of a set of names in ascending order.
Listings(S) ==
  {s \in SeqsUpTo(Names, Cardinality(Names)) :
     /\ Len(s) = Cardinality(S)
     /\ {s[i] : i \in DOMAIN s} = S
     /\ \A i, j \in DOMAIN s : i < j => NameRank[s[i]] < NameRank[s[j]]}

\* C21: NewRunner for a registered name returns a Runner and no error; for
\* a name that is not registered it returns no Runner and the "unsupported
\* runner" error, which holds the name asked for and the names registered
\* at that time in ascending order.
C21_NewRunnerHitOrMiss ==
  lookup # << >> =>
    LET known == NamesBefore(lookup.at) IN
      IF lookup.name \in known
      THEN lookup.runner # << >> /\ lookup.err = ""
      ELSE /\ lookup.runner = << >>
           /\ \E s \in Listings(known) :
                lookup.err = "unsupported runner: \"" \o lookup.name
                             \o "\" (available: [" \o JoinSpace(s) \o "])"

\* A miss after two names were registered out of order.
C21_Witness ==
  /\ lookup # << >>
  /\ lookup.at = 2 /\ lookup.name = "stub"
  /\ registered[1].name = "zed" /\ registered[2].name = "claude"
  /\ lookup.err = "unsupported runner: \"stub\" (available: [claude zed])"

(***************************************************************************)
(* The session loop and the registry.                                      *)
(***************************************************************************)
\* C22: when the configured command is not registered, NewRunner returns
\* its error without calling a constructor, RunPlan fails with that error
\* and never invokes a Runner; and no step of a conversation, the NewRunner
\* call included, changes the registry, whether the lookup hits or misses.
C22_UnknownBackendFailsFirst ==
  /\ [](lookup # << >> /\ lookup.name \notin DOMAIN registry =>
          /\ lookup.runner = << >>
          /\ pc = "Failed"
          /\ raised = <<"creating runner: ", lookup.err>>
          /\ runs = << >>)
  /\ [][registry' = registry]_vars

\* RunPlan has failed for a command that is not registered.
C22_Witness ==
  /\ lookup # << >>
  /\ lookup.name = "zed"
  /\ pc = "Failed"
  /\ runs = << >>

MaxBlocks == 2

JNil == [k |-> "nil", v |-> << >>]
JStr(str) == [k |-> "str", v |-> str]
JBool(b) == [k |-> "bool", v |-> b]
JNum(n) == [k |-> "num", v |-> n]
JMap(m) == [k |-> "map", v |-> m]
JArr(a) == [k |-> "arr", v |-> a]

\* m[key] on a map[string]any: nil when the key is absent or the map is nil.
Index(m, key) == IF key \in DOMAIN m THEN m[key] ELSE JNil

\* Variant: the one-value form of a type assertion, x.(T), which panics on
\* a value of another type.
TypeAssertOrPanic(x, kind, zero) ==
  [panic |-> x.k # kind, v |-> IF x.k = kind THEN x.v ELSE zero]

\* The two-value form of a type assertion, v, _ := x.(T): the zero value of
\* T on a value of another type, and never a panic.
TypeAssert(x, kind, zero) ==
  [panic |-> FALSE, v |-> IF x.k = kind THEN x.v ELSE zero]

\* x == str for an interface value x: true only for that string.
IsString(x, str) == x.k = "str" /\ x.v = str

\* strings.Join(texts, "\n").
RECURSIVE JoinNewline(_)
JoinNewline(texts) ==
  IF texts = << >> THEN ""
  ELSE IF Len(texts) = 1 THEN texts[1]
  ELSE texts[1] \o "\n" \o JoinNewline(Tail(texts))

\* Variant: the session identifier is read from system events only.
EventSessionIDOfSystem(e) ==
  LET a == TypeAssert(Index(e.Data, "session_id"), "str", "") IN
    [panic |-> a.panic, val |-> IF e.Type = "system" THEN a.v ELSE ""]

\* Event.SessionID.
EventSessionID(e) ==
  LET a == TypeAssert(Index(e.Data, "session_id"), "str", "") IN
    [panic |-> a.panic, val |-> a.v]

\* Event.IsResult.
EventIsResult(e) == [panic |-> FALSE, val |-> e.Type = "result"]

\* Variant: the flag is read whatever the type of the event.
EventIsErrorAnyType(e) ==
  LET a == TypeAssert(Index(e.Data, "is_error"), "bool", FALSE) IN
    [panic |-> a.panic, val |-> a.v]

\* Event.IsError.
EventIsError(e) ==
  IF ~ EventIsResult(e).val THEN [panic |-> FALSE, val |-> FALSE]
  ELSE LET a == TypeAssert(Index(e.Data, "is_error"), "bool", FALSE) IN
         [panic |-> a.panic, val |-> a.v]

\* Event.ResultText.
EventResultText(e) ==
  IF ~ EventIsResult(e).val THEN [panic |-> FALSE, val |-> ""]
  ELSE LET a == TypeAssert(Index(e.Data, "result"), "str", "") IN
         [panic |-> a.panic, val |-> a.v]

\* e.Data["message"]["content"] as the accessors read it.
ContentOf(e) ==
  LET msg == TypeAssert(Index(e.Data, "message"), "map", << >>)
      content == TypeAssert(Index(msg.v, "content"), "arr", << >>) IN
    [panic |-> msg.panic \/ content.panic, v |-> content.v]

\* Variant: the texts are collected last block first.
RECURSIVE CollectTextsReversed(_)
CollectTextsReversed(content) ==
  IF content = << >> THEN [panic |-> FALSE, v |-> << >>]
  ELSE LET block == TypeAssert(Head(content), "map", << >>)
           t == TypeAssert(Index(block.v, "text"), "str", "")
           rest == CollectTextsReversed(Tail(content)) IN
         [panic |-> block.panic \/ t.panic \/ rest.panic,
          v |-> rest.v \o
                (IF IsString(Index(block.v, "type"), "text")
                    /\ Index(block.v, "text").k = "str"
                 THEN <<t.v>> ELSE << >>)]

\* The loop of TextContent: the text of every block whose type is "text"
\* and whose text is a string.
RECURSIVE CollectTexts(_)
CollectTexts(content) ==
  IF content = << >> THEN [panic |-> FALSE, v |-> << >>]
  ELSE LET block == TypeAssert(Head(content), "map", << >>)
           t == TypeAssert(Index(block.v, "text"), "str", "")
           rest == CollectTexts(Tail(content)) IN
         [panic |-> block.panic \/ t.panic \/ rest.panic,
          v |-> (IF IsString(Index(block.v, "type"), "text")
                    /\ Index(block.v, "text").k = "str"
                 THEN <<t.v>> ELSE << >>) \o rest.v]

\* Event.TextContent.
EventTextContent(e) ==
  IF e.Type # "assistant" THEN [panic |-> FALSE, val |-> ""]
  ELSE LET content == ContentOf(e)
           texts == CollectTexts(content.v) IN
         [panic |-> content.panic \/ texts.panic,
          val |-> JoinNewline(texts.v)]

\* Variant: every block that has a name counts as a tool invocation.
RECURSIVE CollectNamed(_)
CollectNamed(content) ==
  IF content = << >> THEN [panic |-> FALSE, v |-> << >>]
  ELSE LET block == TypeAssert(Head(content), "map", << >>)
           rest == CollectNamed(Tail(content)) IN
         [panic |-> block.panic \/ rest.panic,
          v |-> (IF "name" \in DOMAIN block.v
                 THEN <<block.v>> ELSE << >>) \o rest.v]

\* The loop of ToolUses: every block whose type is "tool_use", whole.
RECURSIVE CollectTools(_)
CollectTools(content) ==
  IF content = << >> THEN [panic |-> FALSE, v |-> << >>]
  ELSE LET block == TypeAssert(Head(content), "map", << >>)
           rest == CollectTools(Tail(content)) IN
         [panic |-> block.panic \/ rest.panic,
          v |-> (IF IsString(Index(block.v, "type"), "tool_use")
                 THEN <<block.v>> ELSE << >>) \o rest.v]

\* Event.ToolUses.
EventToolUses(e) ==
  IF e.Type # "assistant" THEN [panic |-> FALSE, val |-> << >>]
  ELSE LET content == ContentOf(e)
           tools == CollectTools(content.v) IN
         [panic |-> content.panic \/ tools.panic, val |-> tools.v]

(***************************************************************************)
(* The events the accessors are applied to: every type with every          *)
(* combination of the fields the accessors read, each field absent, of     *)
(* the expected JSON type, or of another one.                              *)
(***************************************************************************)
\* A field the payload does not have.
Absent == [k |-> "absent", v |-> << >>]

\* The payload with the fields of f that are not Absent; none at all is the
\* empty (or nil) map.
DataOf(f) ==
  [key \in {x \in DOMAIN f : f[x].k # "absent"} |-> f[key]]

TextBlockOf(str) == JMap([type |-> JStr("text"), text |-> JStr(str)])
BashToolUse ==
  JMap([type |-> JStr("tool_use"), name |-> JStr("Bash"),
        input |-> JMap([command |-> JStr("ls")])])
ContentBlocks ==
  { TextBlockOf("Hello"), TextBlockOf(" world"),
    JMap([type |-> JStr("text"), text |-> JNum(5)]),
    BashToolUse,
    JStr("stray"),
    JMap([name |-> JStr("untyped")]) }

EventTypes == {"system", "assistant", "result", "ping"}
SessionIDFields == {Absent, JStr("abc"), JNum(5)}
IsErrorFields == {Absent, JBool(TRUE), JBool(FALSE), JStr("true")}
ResultFields == {Absent, JStr("plan text"), JNum(5)}
MessageFields ==
  {Absent, JNil, JStr("oops"), JMap(<< >>), JMap([content |-> JStr("oops")])}
    \cup {JMap([content |-> JArr(c)]) : c \in SeqsUpTo(ContentBlocks, MaxBlocks)}

GoEvents ==
  { [Type |-> t,
     Data |-> DataOf([session_id |-> sid, is_error |-> ie,
                      result |-> res, message |-> msg])] :
      t \in EventTypes, sid \in SessionIDFields, ie \in IsErrorFields,
      res \in ResultFields, msg \in MessageFields }

AccessorInit ==
  /\ PromptIdle
  /\ PlanIdle /\ AdapterIdle /\ RegistryIdle
  /\ other = << >> /\ active = 1
  /\ qtext = << >> /\ qfound = << >>
  /\ ev \in GoEvents
  /\ ret = << >>

\* One call of an accessor on the event: what it returns, and whether it
\* panicked.
Returned(fn, r) == [fn |-> fn, panic |-> r.panic, val |-> r.val]

CallSessionID ==
  /\ ev # << >>
  /\ ret' = Returned("SessionID", EventSessionID(ev))
  /\ ev' = ev
  /\ UNCHANGED <<planVars, adapterVars, registryVars, concVars, questionVars, promptVars>>

CallIsResult ==
  /\ ev # << >>
  /\ ret' = Returned("IsResult", EventIsResult(ev))
  /\ ev' = ev
  /\ UNCHANGED <<planVars, adapterVars, registryVars, concVars, questionVars, promptVars>>

CallIsError ==
  /\ ev # << >>
  /\ ret' = Returned("IsError", EventIsError(ev))
  /\ ev' = ev
  /\ UNCHANGED <<planVars, adapterVars, registryVars, concVars, questionVars, promptVars>>

CallResultText ==
  /\ ev # << >>
  /\ ret' = Returned("ResultText", EventResultText(ev))
  /\ ev' = ev
  /\ UNCHANGED <<planVars, adapterVars, registryVars, concVars, questionVars, promptVars>>

CallTextContent ==
  /\ ev # << >>
  /\ ret' = Returned("TextContent", EventTextContent(ev))
  /\ ev' = ev
  /\ UNCHANGED <<planVars, adapterVars, registryVars, concVars, questionVars, promptVars>>

CallToolUses ==
  /\ ev # << >>
  /\ ret' = Returned("ToolUses", EventToolUses(ev))
  /\ ev' = ev
  /\ UNCHANGED <<planVars, adapterVars, registryVars, concVars, questionVars, promptVars>>

AccessorNext ==
  \/ CallSessionID
  \/ CallIsResult
  \/ CallIsError
  \/ CallResultText
  \/ CallTextContent
  \/ CallToolUses

AccessorSpec == AccessorInit /\ [][AccessorNext]_vars

\* The field of the payload of the event, nil when it has none.
Field(key) == Index(ev.Data, key)

\* The content blocks of the event when its message is a mapping whose
\* content is a sequence, and none otherwise.
Blocks ==
  IF Field("message").k = "map" /\ Index(Field("message").v, "content").k = "arr"
  THEN Index(Field("message").v, "content").v
  ELSE << >>

\* C24: for an event that is not a result the result text is empty and the
\* error flag is false, whatever its payload holds under result and
\* is_error; and an event is a result exactly when its type is "result".
C24_NonResultHasNoResult ==
  /\ ret # << >> /\ ret.fn = "ResultText" /\ ev.Type # "result" => ret.val = ""
  /\ ret # << >> /\ ret.fn = "IsError" /\ ev.Type # "result" => ret.val = FALSE
  /\ ret # << >> /\ ret.fn = "IsResult" => (ret.val <=> ev.Type = "result")

C24_Witness ==
  /\ ret # << >> /\ ret.fn = "IsError" /\ ret.val = FALSE
  /\ ev.Type = "assistant"
  /\ Field("is_error") = JBool(TRUE)
  /\ Field("result") = JStr("plan text")

\* A content block that is a mapping of type "text" carrying a string.
IsTextBlock(b) ==
  b.k = "map" /\ IsString(Index(b.v, "type"), "text")
              /\ Index(b.v, "text").k = "str"

\* A content block that is a mapping of type "tool_use".
IsToolUseBlock(b) == b.k = "map" /\ IsString(Index(b.v, "type"), "tool_use")

\* The texts of the text blocks of the event, in the order of the blocks.
TextsInOrder ==
  LET sel == SelectSeq(Blocks, IsTextBlock) IN
    [i \in 1..Len(sel) |-> sel[i].v.text.v]

\* C25: the text content of an event that is not an assistant event is the
\* empty string; that of an assistant event is the texts of its text blocks
\* in their order, joined by one newline, and no other block contributes.
C25_TextContentJoinsTextBlocks ==
  ret # << >> /\ ret.fn = "TextContent" =>
    ret.val = IF ev.Type = "assistant" THEN JoinNewline(TextsInOrder) ELSE ""

C25_Witness ==
  /\ ret # << >> /\ ret.fn = "TextContent"
  /\ ev.Type = "assistant"
  /\ Blocks = <<TextBlockOf("Hello"), TextBlockOf(" world")>>
  /\ ret.val = "Hello\n world"

C25_WitnessOtherBlocks ==
  /\ ret # << >> /\ ret.fn = "TextContent"
  /\ ev.Type = "assistant"
  /\ Blocks = <<BashToolUse, TextBlockOf("Hello")>>
  /\ ret.val = "Hello"

\* C26: the tool invocations of an assistant event are exactly its tool_use
\* blocks, one record for each in their order, each with the name and the
\* input of its block; text blocks are left out, and an event that is not
\* an assistant event has none.
C26_ToolUsesAreToolUseBlocks ==
  ret # << >> /\ ret.fn = "ToolUses" =>
    LET sel == SelectSeq(Blocks, IsToolUseBlock) IN
      IF ev.Type # "assistant" THEN ret.val = << >>
      ELSE /\ Len(ret.val) = Len(sel)
           /\ \A i \in 1..Len(sel) :
                /\ Index(ret.val[i], "name") = Index(sel[i].v, "name")
                /\ Index(ret.val[i], "input") = Index(sel[i].v, "input")
                /\ IsString(Index(ret.val[i], "type"), "tool_use")

C26_Witness ==
  /\ ret # << >> /\ ret.fn = "ToolUses"
  /\ ev.Type = "assistant"
  /\ Blocks = <<TextBlockOf("Hello"), BashToolUse>>
  /\ Len(ret.val) = 1
  /\ ret.val[1].name = JStr("Bash")
  /\ ret.val[1].input = JMap([command |-> JStr("ls")])

\* C27: the session identifier of an event of any type is the string its
\* payload holds under session_id, and the empty string when the payload
\* has no such field or holds something that is not a string.
C27_SessionIDFromPayload ==
  ret # << >> /\ ret.fn = "SessionID" =>
    ret.val = IF Field("session_id").k = "str"
              THEN Field("session_id").v ELSE ""

C27_Witness ==
  /\ ret # << >> /\ ret.fn = "SessionID"
  /\ ev.Type = "result"
  /\ ret.val = "abc"

C27_WitnessNotAString ==
  /\ ret # << >> /\ ret.fn = "SessionID"
  /\ Field("session_id") = JNum(5)
  /\ ret.val = ""

\* C28: no accessor ever panics, whatever the event: with a nil payload, a
\* message that is not a mapping, a content that is not a sequence, or
\* blocks that are not mappings; and no accessor changes the event.
C28_AccessorsTotal ==
  /\ [](ret # << >> => ~ ret.panic)
  /\ [][ev' = ev]_vars

C28_Witness ==
  /\ ret # << >> /\ ret.fn = "TextContent" /\ ~ ret.panic
  /\ ev.Type = "assistant"
  /\ Blocks = <<JStr("stray"), TextBlockOf("Hello")>>
  /\ ret.val = "Hello"

C28_WitnessNilPayload ==
  /\ ret # << >> /\ ret.fn = "ToolUses" /\ ~ ret.panic
  /\ ev.Type = "assistant"
  /\ ev.Data = << >>

(***************************************************************************)
(* One call of detect_questions on a text.                                 *)
(*                                                                         *)
(* The texts are runs of short pieces: plain text, markers with each kind  *)
(* of body, a marker whose body does not decode, an opening or a closing   *)
(* delimiter on its own.                                                   *)
(***************************************************************************)
\* Largest number of pieces in a text.
MaxSegments == 3

Marker(body) == <<"OPEN">> \o body \o <<"CLOSE">>

\* The marker of the test of skipped bodies: its span is not JSON.
InvalidMarker == Marker(<<"bad">>)

Segments ==
  { <<"a">>, <<"OPEN">>, <<"CLOSE">>, Marker(<< >>), InvalidMarker,
    Marker(<<"jq1", "jq1">>) }
    \cup { Marker(<<d>>) : d \in DOMAIN JsonDocs \cup NonObjects }

RECURSIVE Flatten(_)
Flatten(segs) ==
  IF segs = << >> THEN << >> ELSE Head(segs) \o Flatten(Tail(segs))

Texts == { Flatten(segs) : segs \in SeqsUpTo(Segments, MaxSegments) }

QuestionInit ==
  /\ PromptIdle
  /\ PlanIdle /\ AdapterIdle /\ RegistryIdle
  /\ other = << >> /\ active = 1
  /\ ev = << >> /\ ret = << >>
  /\ qtext \in Texts
  /\ qfound = << >>

\* detect_questions(text): the list it returns, or the exception it raises.
Detect ==
  /\ qfound = << >>
  /\ qfound' = ScanMarkers(qtext, 1, << >>)
  /\ qtext' = qtext
  /\ UNCHANGED <<planVars, adapterVars, registryVars, concVars, accessorVars,
               promptVars>>

QuestionNext == Detect

QuestionSpec == QuestionInit /\ [][QuestionNext]_vars

\* The bodies that are an object whose questions array holds exactly one
\* question with its fields, and those that hold more than one.
SingleQuestionDocs ==
  { d \in DOMAIN JsonDocs :
      /\ JsonDocs[d].has_questions
      /\ Len(JsonDocs[d].questions) = 1
      /\ JsonDocs[d].questions[1].has_question }

SeveralQuestionDocs ==
  { d \in DOMAIN JsonDocs :
      JsonDocs[d].has_questions /\ Len(JsonDocs[d].questions) > 1 }

\* The marker that opens at position i of text closes at j, with no other
\* opening delimiter in between.
ClosesAt(text, i, j) ==
  /\ text[i] = "OPEN" /\ i < j /\ j <= Len(text) /\ text[j] = "CLOSE"
  /\ \A k \in (i + 1)..(j - 1) : text[k] \notin {"OPEN", "CLOSE"}

\* Every opening delimiter of text belongs to a marker of its own.
Independent(text) ==
  \A i \in 1..Len(text) :
    text[i] = "OPEN" => \E j \in 1..Len(text) : ClosesAt(text, i, j)

\* A well-formed marker with one question opens at position i of text.
WellFormedAt(text, i) ==
  /\ i + 2 <= Len(text) /\ ClosesAt(text, i, i + 2)
  /\ text[i + 1] \in SingleQuestionDocs

\* The questions of the well-formed markers of text, from left to right.
QuestionsLeftToRight(text) ==
  LET at == SelectSeq([i \in 1..Len(text) |-> i],
                      LAMBDA i : WellFormedAt(text, i)) IN
    [n \in 1..Len(at) |-> JsonDocs[text[at[n] + 1]].questions[1].q]

\* C29: on a text whose markers are independent and hold one question when
\* they are well formed, detection returns one Question for each well-formed
\* marker, from left to right; with no well-formed marker it returns the
\* empty sequence.
C29_CountAndOrder ==
  ( /\ qfound # << >>
    /\ Independent(qtext)
    /\ \A i \in 1..Len(qtext) : qtext[i] \notin SeveralQuestionDocs )
  => /\ ~ qfound.raised
     /\ qfound.questions = QuestionsLeftToRight(qtext)

\* The same, on the texts none of whose markers holds JSON that is not an
\* object.
C29_CountAndOrderOfObjects ==
  ( /\ qfound # << >>
    /\ Independent(qtext)
    /\ \A i \in 1..Len(qtext) :
         qtext[i] \notin SeveralQuestionDocs \cup NonObjects )
  => /\ ~ qfound.raised
     /\ qfound.questions = QuestionsLeftToRight(qtext)

C29_WitnessThreeMarkers ==
  /\ qtext = Marker(<<"jq2">>) \o Marker(<<"jq1">>) \o Marker(<<"jq3">>)
  /\ qfound # << >> /\ ~ qfound.raised
  /\ qfound.questions = <<Q2, Q1, Q3>>

\* No well-formed marker, and yet no empty sequence: the call raised.
C29_WitnessRaised ==
  /\ qtext = Marker(<<"jnum">>)
  /\ qfound # << >> /\ qfound.raised

\* The marker that opens at i and closes at j in text is one detection
\* finds, and its span is not valid JSON.
InvalidOccurrence(text, i, j) ==
  /\ Independent(SubSeq(text, 1, i - 1))
  /\ ClosesAt(text, i, j)
  /\ ~ JsonValid(SubSeq(text, i + 1, j - 1))

\* text without its positions i to j.
Without(text, i, j) == SubSeq(text, 1, i - 1) \o SubSeq(text, j + 1, Len(text))

\* C30: a marker whose span is not valid JSON adds no Question and raises
\* nothing: detection gives what it gives on the text without that marker,
\* so every marker before it and after it is processed as if it were not
\* there.
C30_InvalidMarkerSkipped ==
  qfound # << >> =>
    \A i, j \in 1..Len(qtext) :
      InvalidOccurrence(qtext, i, j) =>
        qfound = ScanMarkers(Without(qtext, i, j), 1, << >>)

C30_Witness ==
  /\ qtext = Marker(<<"jq1">>) \o InvalidMarker \o Marker(<<"jq2">>)
  /\ qfound # << >> /\ ~ qfound.raised
  /\ qfound.questions = <<Q1, Q2>>

C30_WitnessAlone ==
  /\ qtext = InvalidMarker
  /\ qfound = [raised |-> FALSE, questions |-> << >>]

\* The bodies one of whose questions lacks the question field.
IncompleteDocs ==
  { d \in DOMAIN JsonDocs :
      \E n \in 1..Len(JsonDocs[d].questions) :
        ~ JsonDocs[d].questions[n].has_question }

\* The marker that opens at position i of text is one detection finds, and
\* one element of its questions array lacks a required field.
IncompleteOccurrence(text, i) ==
  /\ Independent(SubSeq(text, 1, i - 1))
  /\ i + 2 <= Len(text) /\ ClosesAt(text, i, i + 2)
  /\ text[i + 1] \in IncompleteDocs

\* C31: a marker one of whose questions lacks a required field adds no
\* Question at all, not even for the complete elements before the
\* incomplete one: detection gives what it gives on the text without that
\* marker.
C31_NoPartialMarkers ==
  qfound # << >> =>
    \A i \in 1..Len(qtext) :
      IncompleteOccurrence(qtext, i) =>
        qfound = ScanMarkers(Without(qtext, i, i + 2), 1, << >>)

\* The marker whose first element is complete and whose second is not
\* yields the first.
C31_WitnessPartial ==
  /\ qtext = Marker(<<"jq1nokey">>)
  /\ qfound = [raised |-> FALSE, questions |-> <<Q1>>]

\* The same, for the markers whose first element is the incomplete one.
C31_NoQuestionFromFirstIncomplete ==
  qfound # << >> =>
    \A i \in 1..Len(qtext) :
      ( /\ IncompleteOccurrence(qtext, i)
        /\ ~ JsonDocs[qtext[i + 1]].questions[1].has_question )
      => qfound = ScanMarkers(Without(qtext, i, i + 2), 1, << >>)

(***************************************************************************)
(* One call of the prompt builder.                                         *)
(***************************************************************************)
\* Largest number of words in a content and in a header.
MaxContentWords == 3
MaxHeaderWords == 4

PromptWords == {"Specification", "to", "Plan", "my"}

PromptInputs ==
  { [fn |-> "BuildPrompt", content |-> c, header |-> << >>] :
      c \in SeqsUpTo(PromptWords, MaxContentWords) }
  \cup
  { [fn |-> "BuildPromptWithHeader", content |-> c, header |-> h] :
      c \in SeqsUpTo(PromptWords, MaxContentWords),
      h \in SeqsUpTo(PromptWords, MaxHeaderWords) }

PromptInit ==
  /\ PlanIdle /\ AdapterIdle /\ RegistryIdle
  /\ other = << >> /\ active = 1
  /\ ev = << >> /\ ret = << >>
  /\ qtext = << >> /\ qfound = << >>
  /\ pin \in PromptInputs
  /\ pout = << >>

CallBuildPrompt ==
  /\ pin # << >> /\ pin.fn = "BuildPrompt"
  /\ pout = << >>
  /\ pout' = BuildPrompt(pin.content)
  /\ pin' = pin
  /\ UNCHANGED <<planVars, adapterVars, registryVars, concVars, accessorVars,
                 questionVars>>

CallBuildPromptWithHeader ==
  /\ pin # << >> /\ pin.fn = "BuildPromptWithHeader"
  /\ pout = << >>
  /\ pout' = BuildPromptWithHeader(pin.content, pin.header)
  /\ pin' = pin
  /\ UNCHANGED <<planVars, adapterVars, registryVars, concVars, accessorVars,
                 questionVars>>

PromptNext == CallBuildPrompt \/ CallBuildPromptWithHeader

PromptSpec == PromptInit /\ [][PromptNext]_vars

\* sub occurs in str as a run of consecutive words.
Contains(str, sub) ==
  \E i \in 0..(Len(str) - Len(sub)) : SubSeq(str, i + 1, i + Len(sub)) = sub

\* The first two parts of C32: the prompt of BuildPrompt holds the content
\* and the knowledge directory; that of BuildPromptWithHeader holds the
\* heading made of the header, and the content.
PromptHoldsItsParts ==
  /\ pout # << >> /\ pin.fn = "BuildPrompt" =>
       /\ Contains(pout, pin.content)
       /\ Contains(pout, <<".spektacular/knowledge/">>)
  /\ pout # << >> /\ pin.fn = "BuildPromptWithHeader" =>
       /\ Contains(pout, <<"# ">> \o pin.header)
       /\ Contains(pout, pin.content)

\* C32 as stated: the prompt holds its parts, and the prompt built with a
\* header other than the default one does not contain the default header.
C32_PromptBuilder ==
  /\ PromptHoldsItsParts
  /\ pout # << >> /\ pin.fn = "BuildPromptWithHeader"
       /\ pin.header # DefaultHeader
     => ~ Contains(pout, DefaultHeader)

\* C32, amended: the prompt holds its parts, and the prompt built with a
\* header contains the default header exactly when the header or the
\* content contains it.
C32_PromptBuilderAmended ==
  /\ PromptHoldsItsParts
  /\ pout # << >> /\ pin.fn = "BuildPromptWithHeader" =>
       ( Contains(pout, DefaultHeader)
           <=> \/ Contains(pin.header, DefaultHeader)
               \/ Contains(pin.content, DefaultHeader) )

C32_Witness ==
  /\ pout # << >> /\ pin.fn = "BuildPromptWithHeader"
  /\ pin.header = <<"my", "Plan">> /\ pin.content = <<"my", "to">>
  /\ Contains(pout, <<"# ", "my", "Plan", "\n\n", "my", "to">>)
  /\ ~ Contains(pout, DefaultHeader)

\* The content quotes the default header under another header.
C32_WitnessContentQuotes ==
  /\ pout # << >> /\ pin.fn = "BuildPromptWithHeader"
  /\ pin.header = <<"my", "Plan">> /\ pin.content = DefaultHeader
  /\ Contains(pout, DefaultHeader)

\* The header differs from the default one and contains it.
C32_WitnessLongerHeader ==
  /\ pout # << >> /\ pin.fn = "BuildPromptWithHeader"
  /\ pin.header = <<"my">> \o DefaultHeader /\ pin.content = << >>
  /\ Contains(pout, DefaultHeader)

\* C33: the first invocation of a conversation carries no session
\* identifier and the prompt the builder makes of the caller's content, and
\* with it the loop is in Sending with no question accumulated.
C33_InitialTurn ==
  /\ [](runs # << >> =>
          /\ runs[1].session_id = ""
          /\ \E c \in SpecContents : runs[1].prompt = BuildPrompt(c))
  /\ [][runs = << >> /\ runs' # << >> =>
          /\ Len(runs') = 1
          /\ pc' = "Sending"
          /\ questions_found' = << >>
          /\ received' = << >>]_vars

C33_Witness ==
  /\ Len(runs) = 1 /\ pc = "Sending" /\ received = << >>
  /\ runs[1].session_id = ""
  /\ Contains(runs[1].prompt, <<".spektacular/knowledge/">>)
  /\ Contains(runs[1].prompt, DefaultHeader \o <<"\n\n", "my spec">>)

\* C34: a turn whose stream closes with no question accumulated, no result
\* event and no error ends the loop in Failed, the agent having completed
\* without a result; the loop is never left in Sending after the close.
C34_EmptyTurnFails ==
  ( /\ closed /\ streamErr = << >>
    /\ TurnQuestions(received) = << >>
    /\ \A i \in DOMAIN received : received[i].type # "result" )
  => pc = "Failed" /\ raised = NoResultError

\* The same, for the first turn of a conversation.
C34_EmptyFirstTurnFails ==
  ( /\ closed /\ streamErr = << >> /\ Len(runs) = 1
    /\ TurnQuestions(received) = << >>
    /\ \A i \in DOMAIN received : received[i].type # "result" )
  => pc = "Failed" /\ raised = NoResultError

\* A later turn that closes empty ends in Done with the result of a turn
\* before it.
C34_WitnessStaleDone ==
  /\ closed /\ streamErr = << >> /\ Len(runs) = 2
  /\ received = << >>
  /\ pc = "Done" /\ output = "r1"

\* The last invocation has neither exhausted its output nor raised: its
\* process has not been waited for.
InFlight == runs # << >> /\ ~ closed /\ streamErr = << >>

\* C35: the runner is invoked again only after the invocation before it has
\* ended, its stream closed and no error raised, and no invocation is in
\* flight while the loop is in AwaitingAnswer, Done or Failed.
C35_SingleInvocationInFlight ==
  /\ [](pc \in {"AwaitingAnswer", "Done", "Failed"} => ~ InFlight)
  /\ [][Len(runs') > Len(runs) => ~ InFlight]_vars

\* The same but for the failure on an error result: the runner is invoked
\* again only after the invocation before it has ended, and no invocation
\* is in flight in AwaitingAnswer, in Done, or in Failed after the stream
\* closed or raised.
C35_OneInvocationButAfterAgentError ==
  /\ [](pc \in {"AwaitingAnswer", "Done"} => ~ InFlight)
  /\ [](pc = "Failed" /\ InFlight =>
          \E i \in DOMAIN received : ErrResult(received[i]))
  /\ [][Len(runs') > Len(runs) => ~ InFlight]_vars

\* The loop has failed on an error result and the invocation that delivered
\* it has not ended.
C35_WitnessAbandoned ==
  /\ pc = "Failed" /\ InFlight
  /\ raised = AgentError("e1")

\* C36: when every invocation ends, every answer comes and questions are
\* detected in finitely many turns, the loop reaches Done or Failed; and
\* from its first invocation on it is in one of Sending, AwaitingAnswer,
\* Done and Failed.
C36_LoopTerminates ==
  /\ <>(pc \in {"Done", "Failed"})
  /\ [](runs # << >> =>
          pc \in {"Sending", "AwaitingAnswer", "Done", "Failed"})

\* The loop ends in Done in its last turn, after as many answers as the
\* turns before it.
C36_Witness ==
  /\ pc = "Done" /\ Len(runs) = MaxTurns
  /\ lastAnswer # << >>

\* C37: the worker sends its one error, if any, and closes the error stream
\* before it closes the event stream; the send finds room in the buffer;
\* a caller that has seen the event stream closed finds the error stream
\* ready; and from the send on the worker finishes whether or not the
\* caller ever receives from the error stream.
C37_HandOffOrder ==
  /\ [](eventsCloses > 0 => errcCloses = 1)
  /\ [](errcCloses > 0 => wpc \notin {"senderr"})
  /\ [](ErrorsSent <= 1)
  /\ [](wpc = "senderr" => Len(errc) < ErrCap)
  /\ [](cpc = "errc" => errc # << >> \/ errcCloses > 0)
  /\ (WF_vars(Worker) => (wpc = "senderr" ~> wpc = "done"))

\* The worker has finished after sending an error the caller has not
\* received: the caller is still at the event stream.
C37_Witness ==
  /\ WorkerDone /\ eventsCloses = 1 /\ errcCloses = 1
  /\ Len(errc) = 1 /\ gotErr = << >>
  /\ cpc = "events"

\* The error run returns for the launch step that fails.
LaunchError ==
  CASE fail = "getwd" -> GetwdError
    [] fail = "pipe"  -> PipeError
    [] fail = "start" -> StartError
    [] OTHER          -> << >>

\* C38: when the process cannot be launched or its pipe cannot be set up,
\* the caller holds both streams from the start, no Event is ever produced,
\* one error, that of the failing step, is delivered, and the worker ends
\* with both streams closed.
C38_LaunchFailure ==
  /\ [](fail # "none" =>
          /\ cpc # "idle"
          /\ Produced = << >>
          /\ ErrorsSent <= 1
          /\ WorkerDone => /\ ErrorsSent = 1
                           /\ eventsCloses = 1 /\ errcCloses = 1
          /\ cpc = "done" => gotErr = <<LaunchError>>)
  /\ (WF_vars(Worker) => (fail # "none" ~> WorkerTerminated))

C38_Witness ==
  /\ fail = "start"
  /\ WorkerTerminated /\ cpc = "done"
  /\ got = << >> /\ gotErr = <<StartError>>

C38_WitnessPipe ==
  /\ fail = "pipe"
  /\ WorkerTerminated /\ cpc = "done"
  /\ got = << >> /\ gotErr = <<PipeError>>

\* Positions of a flag in the command line.
FlagAt(flag) == {i \in DOMAIN cmd : cmd[i] = flag}

\* C39: the command line is the configured executable, the prompt flag and
\* the prompt, the system-prompt flag and its value exactly when the system
\* prompt is not empty, the configured arguments, the allow-list flag and
\* the tools joined by commas exactly when there are tools, and the
\* skip-permissions flag exactly when the option is set, in this order;
\* only the arguments that resume a session follow.
C39_CommandLine ==
  wpc # "launch" =>
    LET sys == IF opts.SystemPrompt # "" THEN 2 ELSE 0
        n == Len(opts.Args)
        tl == IF opts.AllowedTools # << >> THEN 2 ELSE 0
        sk == IF opts.DangerouslySkipPermissions THEN 1 ELSE 0
        rs == IF opts.SessionID # "" THEN 2 ELSE 0 IN
      /\ Len(cmd) = 3 + sys + n + tl + sk + rs
      /\ cmd[1] = opts.Command
      /\ cmd[2] = "-p" /\ cmd[3] = opts.Prompt
      /\ FlagAt("--system-prompt") = (IF sys = 2 THEN {4} ELSE {})
      /\ sys = 2 => cmd[5] = opts.SystemPrompt
      /\ SubSeq(cmd, 4 + sys, 3 + sys + n) = opts.Args
      /\ FlagAt("--allowedTools") = (IF tl = 2 THEN {4 + sys + n} ELSE {})
      /\ tl = 2 => cmd[5 + sys + n] = JoinComma(opts.AllowedTools)
      /\ FlagAt("--dangerously-skip-permissions")
           = (IF sk = 1 THEN {4 + sys + n + tl} ELSE {})

\* Every option set, with an executable other than claude.
C39_Witness ==
  /\ wpc # "launch"
  /\ opts.Command = "zed" /\ opts.SessionID = ""
  /\ cmd = <<"zed", "-p", "do it", "--system-prompt", "be brief",
             "--output-format", "stream-json", "--verbose",
             "--allowedTools", "Bash,Read",
             "--dangerously-skip-permissions">>

\* No option set.
C39_WitnessBare ==
  /\ wpc # "launch"
  /\ cmd = <<"claude", "-p", "do it">>

====
